---------------------------- MODULE Spec2Model ----------------------------
(***************************************************************************)
(* The Kraken Dreams: transcript data model and speaker-identity           *)
(* reconciliation (kraken_suite.py, src/core/vocabulary.py).               *)
(*                                                                         *)
(* Representation.                                                         *)
(*  - A text is a sequence of tokens.  A token is a maximal run of word    *)
(*    characters ("strahd", "SPEAKER_00") or one non-word character        *)
(*    (" ", "-", "&") or one of the punctuation groups "] " and ":" of a   *)
(*    transcript line.  Texts hold no newline, so "\n".join and            *)
(*    split("\n") are the passage between a sequence of lines and the      *)
(*    string.                                                              *)
(*  - A transcript line is [stamp, body]: stamp is <<>> for a line that    *)
(*    does not start with "[digits:digits", else <<minutes, seconds>>;     *)
(*    body is the token sequence that follows.                             *)
(*  - A Python dict is a sequence of <<key, value>> pairs with distinct    *)
(*    keys, in insertion order.                                            *)
(*  - Times are integers in tenths of a second.                            *)
(*  - A path is a sequence of tokens: a base name followed by the          *)
(*    suffixes "_notes", "_named", "_segments", ".txt", ".json", ".mp4".   *)
(***************************************************************************)
EXTENDS Integers, Sequences, FiniteSets, TLC

VARIABLES
    \* ---- KrakenSuite application state (kraken_suite.py:100-127)
    selected_file,
    is_transcribing,
    transcription_stop_requested,
    current_transcript,
    current_output_file,
    current_media_file,
    speakers,
    speaker_avatars,
    speaker_genders,
    segments_data,
    \* ---- speakers tab widgets (populate_speakers_tab)
    speaker_entries,
    speaker_gender_vars,
    cards_built,
    \* ---- the transcription worker thread and the Tk after() queue
    worker,
    after_queue,
    \* ---- the file system
    files,
    \* ---- VocabularyManager under test (src/core/vocabulary.py)
    vocab,
    vtext,
    vuse,
    vonce,
    vtwice,
    vphase,
    \* ---- playback (kraken_suite.py:105-108, 124; update_speaker_indicators)
    temp_audio_file,
    is_playing,
    elapsed,
    active_speakers,
    active_speaker_ids,
    is_paused,
    playback_offset,
    audio_duration,
    \* ---- time.time() - playback_start_time as of the last look at the clock
    played,
    \* ---- the preview's colors (update_preview_with_colors) and the hash
    \* ---- seed the interpreter drew when the process started
    hash_seed,
    speaker_colors,
    \* ---- the bard's tale and the session summary (kraken_suite.py:2275-2592)
    bard_running,
    bard_stop_requested,
    bard_status,
    bard_worker,
    bard_queue,
    \* ---- history: last operation, session as of the run start, last save
    op,
    pre,
    shadow,
    lastSave,
    ops,
    \* ---- the first colored preview since the disk was set up
    painted,
    \* ---- the generation under way: was a stop requested, what was sent
    bard_hist

sessionVars == <<current_transcript, current_output_file, current_media_file,
                 speakers, speaker_avatars, speaker_genders, segments_data>>
uiVars == <<speaker_entries, speaker_gender_vars, cards_built>>
runVars == <<selected_file, is_transcribing, transcription_stop_requested,
             worker, after_queue>>
vocabVars == <<vocab, vtext, vuse, vonce, vtwice, vphase>>
seekVars == <<is_paused, playback_offset, audio_duration, played>>
playVars == <<temp_audio_file, is_playing, elapsed, active_speakers, active_speaker_ids,
              seekVars>>
colorVars == <<hash_seed, speaker_colors, painted>>
bardVars == <<bard_running, bard_stop_requested, bard_status, bard_worker, bard_queue,
              bard_hist>>
histVars == <<op, pre, shadow, lastSave, ops>>
vars == <<sessionVars, uiVars, runVars, files, vocabVars, playVars, colorVars, bardVars,
          histVars>>

(* The number of loads, avatar choices and renames of one behaviour. *)
MaxOps == 3

(* The number of loads where a transcription run goes on next to them,    *)
(* and the number of transcription runs.                                   *)
MaxEdits == 2
MaxRuns == 1

-----------------------------------------------------------------------------
(* Sequences                                                               *)

Range(s) == {s[i] : i \in 1..Len(s)}

(* Lower-casing of the tokens that have an upper-case letter. *)
LowerTable ==
    << <<"Strahd", "strahd">>, <<"STRAHD", "strahd">>, <<"Tiefling", "tiefling">>,
       <<"Npc", "npc">>, <<"NPC", "npc">>, <<"PC", "pc">>, <<"AC", "ac">>,
       <<"HP", "hp">>, <<"D", "d">>, <<"Dungeon", "dungeon">>,
       <<"Dungeons", "dungeons">>, <<"Dragons", "dragons">>,
       <<"Master", "master">>, <<"Game", "game">>, <<"Fireball", "fireball">>,
       <<"Magic", "magic">>, <<"Missile", "missile">>, <<"Eldritch", "eldritch">>,
       <<"Blast", "blast">>, <<"Cure", "cure">>, <<"Wounds", "wounds">>,
       <<"Healing", "healing">>, <<"Word", "word">>,
       <<"Thunderwave", "thunderwave">>, <<"Shield", "shield">>,
       <<"Counterspell", "counterspell">>, <<"Dispel", "dispel">>,
       <<"SPEAKER_00", "speaker_00">>, <<"SPEAKER_01", "speaker_01">>,
       <<"UNKNOWN", "unknown">>, <<"Unknown", "unknown">>,
       <<"Alice", "alice">>, <<"Bob", "bob">>, <<"Zara", "zara">>,
       <<"Session", "session">>, <<"Transcription", "transcription">>,
       <<"File", "file">> >>

LowerDomain == {LowerTable[i][1] : i \in 1..Len(LowerTable)}

LowerMap ==
    [t \in LowerDomain |->
        LowerTable[CHOOSE i \in 1..Len(LowerTable) : LowerTable[i][1] = t][2]]

(* str.lower() *)
Lower(t) == IF t \in LowerDomain THEN LowerMap[t] ELSE t

LowerSeq(s) == [i \in 1..Len(s) |-> Lower(s[i])]

(* The scan of ReplaceAll from position i; ls and lold are s and old as    *)
(* the comparison sees them.                                               *)
RECURSIVE ReplaceFrom(_, _, _, _, _)
ReplaceFrom(s, ls, lold, new, i) ==
    IF i + Len(lold) - 1 > Len(s) THEN SubSeq(s, i, Len(s))
    ELSE IF ls[i] = lold[1] /\ SubSeq(ls, i, i + Len(lold) - 1) = lold
         THEN new \o ReplaceFrom(s, ls, lold, new, i + Len(lold))
         ELSE <<s[i]>> \o ReplaceFrom(s, ls, lold, new, i + 1)

(* str.replace(old, new) and re.sub(r'\b' + re.escape(old) + r'\b', new,   *)
(* flags=re.IGNORECASE): every non-overlapping occurrence, left to right,  *)
(* the scan resuming after the occurrence in the original text.  ic is     *)
(* the IGNORECASE flag.                                                    *)
ReplaceAll(s, old, new, ic) ==
    IF Len(old) = 0 THEN s
    ELSE ReplaceFrom(s, IF ic THEN LowerSeq(s) ELSE s,
                     IF ic THEN LowerSeq(old) ELSE old, new, 1)

-----------------------------------------------------------------------------
(* Python dicts                                                            *)

DKeys(d) == {d[i][1] : i \in 1..Len(d)}
DHas(d, k) == k \in DKeys(d)
DIndex(d, k) == CHOOSE i \in 1..Len(d) : d[i][1] = k
DGet(d, k, default) == IF DHas(d, k) THEN d[DIndex(d, k)][2] ELSE default
DSet(d, k, v) ==
    IF DHas(d, k) THEN [d EXCEPT ![DIndex(d, k)] = <<k, v>>]
    ELSE Append(d, <<k, v>>)
RECURSIVE DUpdate(_, _)
DUpdate(d, e) ==
    IF e = <<>> THEN d ELSE DUpdate(DSet(d, e[1][1], e[1][2]), Tail(e))
DItems(d) == Range(d)
DValues(d) == {d[i][2] : i \in 1..Len(d)}

-----------------------------------------------------------------------------
(* Vocabulary (src/core/vocabulary.py)                                     *)

DND_CORRECTIONS ==
    << <<<<"teefling">>, <<"tiefling">>>>,
       <<<<"tifling">>, <<"tiefling">>>>,
       <<<<"dragonborne">>, <<"dragonborn">>>>,
       <<<<"half", " ", "orc">>, <<"half", "-", "orc">>>>,
       <<<<"half", " ", "elf">>, <<"half", "-", "elf">>>>,
       <<<<"aasamar">>, <<"aasimar">>>>,
       <<<<"assimar">>, <<"aasimar">>>>,
       <<<<"genassi">>, <<"genasi">>>>,
       <<<<"golioth">>, <<"goliath">>>>,
       <<<<"kenku">>, <<"kenku">>>>,
       <<<<"tabaxy">>, <<"tabaxi">>>>,
       <<<<"tortle">>, <<"tortle">>>>,
       <<<<"yuan", " ", "ti">>, <<"yuan", "-", "ti">>>>,
       <<<<"barbarian">>, <<"barbarian">>>>,
       <<<<"artifcer">>, <<"artificer">>>>,
       <<<<"blood", " ", "hunter">>, <<"blood", " ", "hunter">>>>,
       <<<<"dungeon", " ", "master">>, <<"Dungeon", " ", "Master">>>>,
       <<<<"game", " ", "master">>, <<"Game", " ", "Master">>>>,
       <<<<"non", " ", "player", " ", "character">>, <<"NPC">>>>,
       <<<<"player", " ", "character">>, <<"PC">>>>,
       <<<<"armor", " ", "class">>, <<"AC">>>>,
       <<<<"hit", " ", "points">>, <<"HP">>>>,
       <<<<"dungens", " ", "and", " ", "dragons">>,
         <<"Dungeons", " ", "&", " ", "Dragons">>>>,
       <<<<"d", " ", "and", " ", "d">>, <<"D", "&", "D">>>>,
       <<<<"dnd">>, <<"D", "&", "D">>>>,
       <<<<"dee", " ", "and", " ", "dee">>, <<"D", "&", "D">>>>,
       <<<<"nat", " ", "20">>, <<"nat", " ", "20">>>>,
       <<<<"natural", " ", "20">>, <<"nat", " ", "20">>>>,
       <<<<"nat", " ", "1">>, <<"nat", " ", "1">>>>,
       <<<<"natural", " ", "1">>, <<"nat", " ", "1">>>>,
       <<<<"critical", " ", "hit">>, <<"crit">>>>,
       <<<<"critical", " ", "miss">>, <<"crit", " ", "fail">>>>,
       <<<<"d4">>, <<"d4">>>>,
       <<<<"d6">>, <<"d6">>>>,
       <<<<"d8">>, <<"d8">>>>,
       <<<<"d10">>, <<"d10">>>>,
       <<<<"d12">>, <<"d12">>>>,
       <<<<"d20">>, <<"d20">>>>,
       <<<<"d100">>, <<"d100">>>>,
       <<<<"percentile">>, <<"percentile">>>>,
       <<<<"fireball">>, <<"Fireball">>>>,
       <<<<"magic", " ", "missile">>, <<"Magic", " ", "Missile">>>>,
       <<<<"eldritch", " ", "blast">>, <<"Eldritch", " ", "Blast">>>>,
       <<<<"cure", " ", "wounds">>, <<"Cure", " ", "Wounds">>>>,
       <<<<"healing", " ", "word">>, <<"Healing", " ", "Word">>>>,
       <<<<"thunder", " ", "wave">>, <<"Thunderwave">>>>,
       <<<<"shield">>, <<"Shield">>>>,
       <<<<"counter", " ", "spell">>, <<"Counterspell">>>>,
       <<<<"dispel", " ", "magic">>, <<"Dispel", " ", "Magic">>>>,
       <<<<"attack", " ", "of", " ", "opportunity">>,
         <<"opportunity", " ", "attack">>>>,
       <<<<"bonus", " ", "action">>, <<"bonus", " ", "action">>>>,
       <<<<"reaction">>, <<"reaction">>>>,
       <<<<"concentration">>, <<"concentration">>>>,
       <<<<"advantage">>, <<"advantage">>>>,
       <<<<"disadvantage">>, <<"disadvantage">>>>,
       <<<<"saving", " ", "throw">>, <<"saving", " ", "throw">>>>,
       <<<<"ability", " ", "check">>, <<"ability", " ", "check">>>>,
       <<<<"skill", " ", "check">>, <<"skill", " ", "check">>>>,
       <<<<"death", " ", "save">>, <<"death", " ", "save">>>>,
       <<<<"death", " ", "saving", " ", "throw">>, <<"death", " ", "save">>>> >>

(* for wrong, correct in rules: result = re.sub(\bwrong\b, correct, result, IGNORECASE) *)
RECURSIVE ApplyRules(_, _)
ApplyRules(text, rules) ==
    IF rules = <<>> THEN text
    ELSE LET result == ReplaceAll(text, rules[1][1], rules[1][2], TRUE)
         IN IF Len(result) = 0 THEN result ELSE ApplyRules(result, Tail(rules))

(* for name in names: result = re.sub(\bname.lower()\b, name, result, IGNORECASE) *)
RECURSIVE ApplyNames(_, _)
ApplyNames(text, names) ==
    IF names = <<>> THEN text
    ELSE ApplyNames(ReplaceAll(text, LowerSeq(names[1]), names[1], TRUE), Tail(names))

(* VocabularyManager.apply_corrections *)
ApplyCorrections(m, text, use_dnd_terms) ==
    LET r1 == ApplyRules(text, m.custom_corrections)
        r2 == ApplyNames(r1, m.character_names)
        r3 == ApplyNames(r2, m.place_names)
    IN IF use_dnd_terms THEN ApplyRules(r3, DND_CORRECTIONS) ELSE r3

(* VocabularyManager() on the file written by create_default_vocabulary:   *)
(* every line of it is a comment or a section header.                      *)
DefaultVocabulary ==
    [custom_corrections |-> <<>>, character_names |-> <<>>, place_names |-> <<>>]

-----------------------------------------------------------------------------
(* Inputs of the vocabulary specification                                  *)

MaxWords == 2
MaxCustom == 2
MaxNames == 1

VocabWords == {"strahd", "Strahd", "teefling", "npc", "fire", "ball"}

CustomPool ==
    { <<<<"strahd">>, <<"STRAHD">>>>,
      <<<<"fire", " ", "ball">>, <<"fireball">>>>,
      <<<<"npc">>, <<"strahd">>>> }

CharacterPool == { <<"Strahd">>, <<"Tiefling">> }
PlacePool == { <<"Npc">> }

InjectiveSeqs(S, n) ==
    {s \in UNION {[1..k -> S] : k \in 0..n} :
        \A i, j \in 1..Len(s) : i # j => s[i] # s[j]}

RECURSIVE JoinWords(_)
JoinWords(ws) ==
    IF Len(ws) = 0 THEN <<>>
    ELSE IF Len(ws) = 1 THEN <<ws[1]>>
    ELSE <<ws[1], " ">> \o JoinWords(Tail(ws))

VocabTexts == {JoinWords(ws) : ws \in UNION {[1..k -> VocabWords] : k \in 1..MaxWords}}

VocabManagers ==
    [custom_corrections : InjectiveSeqs(CustomPool, MaxCustom),
     character_names : InjectiveSeqs(CharacterPool, MaxNames + 1),
     place_names : InjectiveSeqs(PlacePool, MaxNames)]

(* s occurs in text as a contiguous run of tokens; ic ignores case. *)
Occurs(s, text, ic) ==
    \E i \in 1..(Len(text) - Len(s) + 1) :
        LET w == SubSeq(text, i, i + Len(s) - 1)
        IN IF ic THEN LowerSeq(w) = LowerSeq(s) ELSE w = s

-----------------------------------------------------------------------------
(* Transcript lines and segments                                           *)

Line(stamp, body) == [stamp |-> stamp, body |-> body]

TitleLine == Line(<<>>, <<"D", "&", "D", " ", "Session", " ", "Transcription">>)
RuleLine == Line(<<>>, <<"==================================================">>)
BlankLine == Line(<<>>, <<>>)

(* f"[{minutes:02d}:{seconds:02d}] {speaker}: {text}" with                  *)
(* minutes = int(start // 60), seconds = int(start % 60)                   *)
FormatLine(start, speaker, text) ==
    Line(<<start \div 600, (start % 600) \div 10>>,
         <<"] ", speaker, ":", " ">> \o text)

(* re.match(r'\[\d+:\d+\] ([^:]+):', line): the line starts with a stamp   *)
(* of two numbers and "] ", and a ":" follows at least one character on.   *)
(* Names are single tokens here, so group 1 is the token before the ":".   *)
HasSpeakerLabel(line) ==
    /\ Len(line.stamp) = 2
    /\ Len(line.body) >= 3
    /\ line.body[1] = "] "
    /\ line.body[2] # ":"
    /\ line.body[3] = ":"

LabelOf(line) == line.body[2]

(* re.match(r'\[(\d+):(\d+)\] ([^:]+): (.+)', line) *)
IsDialogueLine(line) ==
    /\ HasSpeakerLabel(line)
    /\ Len(line.body) >= 5
    /\ line.body[4] = " "

DialogueText(line) == SubSeq(line.body, 5, Len(line.body))

Segment(start, end, speaker, text) ==
    [start |-> start, end |-> end, speaker |-> speaker, text |-> text]

(* src/core/formatters.py:42-64, on the numbers between "[" and "]" *)
parse_timestamp(parts) ==
    IF Len(parts) = 2 THEN parts[1] * 60 + parts[2]
    ELSE IF Len(parts) = 3 THEN parts[1] * 3600 + parts[2] * 60 + parts[3]
    ELSE 0

(* The lines of a transcript that carry a speaker label, in order. *)
LabelledLines(lines) == SelectSeq(lines, HasSpeakerLabel)

(* str.strip() on a text: leading and trailing blanks removed. *)
RECURSIVE LStrip(_)
LStrip(t) == IF Len(t) > 0 /\ t[1] = " " THEN LStrip(Tail(t)) ELSE t
RECURSIVE RStrip(_)
RStrip(t) ==
    IF Len(t) > 0 /\ t[Len(t)] = " " THEN RStrip(SubSeq(t, 1, Len(t) - 1)) ELSE t
Strip(t) == RStrip(LStrip(t))

(* KrakenSuite.apply_vocabulary_corrections on the joined transcript: no   *)
(* pattern holds a newline, so the substitution works line by line.        *)
ApplyVocabularyCorrections(lines) ==
    [i \in 1..Len(lines) |->
        Line(lines[i].stamp, ApplyCorrections(vocab, lines[i].body, TRUE))]

-----------------------------------------------------------------------------
(* Paths and files                                                         *)

NotesPath(base) == <<base, "_notes", ".txt">>
SegmentsPath(base) == <<base, "_segments", ".json">>

EndsWith(p, ext) == Len(p) > 0 /\ p[Len(p)] = ext

(* os.path.splitext(os.path.basename(p))[0] *)
BaseName(p) == p[1]

(* file_path.replace("_notes.txt", "_segments.json").replace(".txt", "_segments.json") *)
SidecarPath(file_path) ==
    ReplaceAll(ReplaceAll(file_path, <<"_notes", ".txt">>, <<"_segments", ".json">>, FALSE),
               <<".txt">>, <<"_segments", ".json">>, FALSE)

(* current_output_file.replace(".txt", "_named.txt").replace("_notes_named", "_named") *)
NamedPath(output_file) ==
    ReplaceAll(ReplaceAll(output_file, <<".txt">>, <<"_named", ".txt">>, FALSE),
               <<"_notes", "_named">>, <<"_named">>, FALSE)

(* named_path.replace(".txt", "_segments.json") *)
NamedJsonPath(named_path) ==
    ReplaceAll(named_path, <<".txt">>, <<"_segments", ".json">>, FALSE)

NoJson == [media_file |-> <<>>, segments |-> <<>>, avatars |-> <<>>,
           genders |-> <<>>, has_genders |-> FALSE]

TextFile(lines) == [kind |-> "text", lines |-> lines, json |-> NoJson]
JsonFile(obj) == [kind |-> "json", lines |-> <<>>, json |-> obj]
GarbageFile == [kind |-> "garbage", lines |-> <<>>, json |-> NoJson]
MediaFile == [kind |-> "media", lines |-> <<>>, json |-> NoJson]

Exists(p) == p \in DOMAIN files

WriteFile(fs, p, content) ==
    [q \in DOMAIN fs \cup {p} |-> IF q = p THEN content ELSE fs[q]]

(* json.load succeeds on the file. *)
ParsesAsJson(p) == files[p].kind = "json"

NoPath == <<>>

-----------------------------------------------------------------------------
(* Ordering of speaker labels                                              *)

(* The labels of the model in the order of Python's string comparison. *)
LexOrder == <<"Alice", "Bob", "SPEAKER_00", "SPEAKER_01", "UNKNOWN", "Zara">>

LexRank(s) == CHOOSE i \in 1..Len(LexOrder) : LexOrder[i] = s

StartsWithSPEAKER(s) == s \in {"SPEAKER_00", "SPEAKER_01"}

(* load_transcript_directly.sort_key *)
sort_key(s) ==
    IF StartsWithSPEAKER(s) THEN <<0, LexRank(s)>>
    ELSE IF s = "UNKNOWN" THEN <<2, LexRank(s)>>
    ELSE <<1, LexRank(s)>>

PlainKey(s) == <<0, LexRank(s)>>

KeyLess(a, b) == a[1] < b[1] \/ (a[1] = b[1] /\ a[2] < b[2])

(* sorted(S, key=...) with the keys given as the function K on S *)
RECURSIVE SortedBy(_, _)
SortedBy(S, K) ==
    IF S = {} THEN <<>>
    ELSE LET m == CHOOSE x \in S : \A y \in S \ {x} : KeyLess(K[x], K[y])
         IN <<m>> \o SortedBy(S \ {m}, K)

(* sorted(found_speakers, key=sort_key) *)
SortedForLoad(S) == SortedBy(S, [s \in S |-> sort_key(s)])

(* sorted(found_speakers) *)
SortedPlain(S) == SortedBy(S, [s \in S |-> PlainKey(s)])

(* {s: s for s in seq} *)
IdentityDict(seq) == [i \in 1..Len(seq) |-> <<seq[i], seq[i]>>]

-----------------------------------------------------------------------------
(* The session and the history variables                                   *)

SessionOf(t, o, m, sp, av, ge, sg) ==
    [transcript |-> t, output_file |-> o, media_file |-> m, speakers |-> sp,
     avatars |-> av, genders |-> ge, segments |-> sg]

Session ==
    SessionOf(current_transcript, current_output_file, current_media_file,
              speakers, speaker_avatars, speaker_genders, segments_data)

SessionNext ==
    SessionOf(current_transcript', current_output_file', current_media_file',
              speakers', speaker_avatars', speaker_genders', segments_data')

Op(name, path, typed, chosen, fail) ==
    [name |-> name, path |-> path, typed |-> typed, chosen |-> chosen, fail |-> fail]

SimpleOp(name) == Op(name, NoPath, <<>>, <<>>, "none")

NoSave == [valid |-> FALSE, by |-> "none", txt |-> NoPath, json |-> NoPath,
           segments |-> <<>>, avatars |-> <<>>, genders |-> <<>>]

(* A step of the owner (UI) thread: op names it, pre is the session before *)
(* it, shadow follows the session as the owner thread leaves it.           *)
OwnerStep(o) ==
    /\ op' = o
    /\ pre' = Session
    /\ shadow' = SessionNext

(* A step that leaves the session alone as far as the owner thread goes:  *)
(* a step of the worker thread, or transcription_failed.                   *)
WorkerStep(o) ==
    /\ op' = o
    /\ pre' = Session
    /\ UNCHANGED shadow

-----------------------------------------------------------------------------
(* populate_speakers_tab: one card per registry key, the entry filled with *)
(* the current name, the gender variable with the current gender.          *)

EntriesFor(sp) == sp

GenderVarsFor(sp, ge) == [i \in 1..Len(sp) |-> <<sp[i][1], DGet(ge, sp[i][1], "")>>]

PopulateSpeakersTab ==
    /\ speaker_entries' = EntriesFor(speakers')
    /\ speaker_gender_vars' = GenderVarsFor(speakers', speaker_genders')
    /\ cards_built' = TRUE

-----------------------------------------------------------------------------
(* load_transcript_directly                                                *)

(* The transcript rebuilt from the segments of a sidecar (lines 1371-1377). *)
RebuildTranscript(segments) ==
    <<TitleLine, RuleLine, BlankLine>> \o
    [i \in 1..Len(segments) |->
        FormatLine(segments[i].start, segments[i].speaker, segments[i].text)]

(* Segments pattern-matched out of a flat transcript (lines 1404-1413). *)
LegacySegments(lines) ==
    LET dl == SelectSeq(lines, IsDialogueLine)
    IN [i \in 1..Len(dl) |->
          LET start_time == (dl[i].stamp[1] * 60 + dl[i].stamp[2]) * 10
          IN Segment(start_time, start_time + 50, LabelOf(dl[i]), DialogueText(dl[i]))]

(* A scan that stops at the first line that carries a speaker label. *)
FoundSpeakers_First(lines) ==
    LET ll == SelectSeq(lines, HasSpeakerLabel)
    IN IF ll = <<>> THEN {} ELSE {LabelOf(ll[1])}

(* found_speakers of lines 1415-1422 *)
FoundSpeakers(lines) == {LabelOf(lines[i]) : i \in {j \in 1..Len(lines) : HasSpeakerLabel(lines[j])}}

(* A loader that replaces the map in memory by the loaded map. *)
MergeLoaded_Replace(current, loaded) == loaded

(* loaded = data.get(key, {}); if loaded: current.update(loaded) *)
MergeLoaded(current, loaded) == IF loaded # <<>> THEN DUpdate(current, loaded) ELSE current

(* A seeding that keeps the entries of the registry and adds the missing   *)
(* labels.                                                                 *)
SeedRegistry_Merge(found) ==
    DUpdate(IdentityDict(SortedForLoad(found \ DKeys(speakers))), speakers)

(* found_speakers = sorted(found_speakers, key=sort_key);                  *)
(* self.speakers = {s: s for s in found_speakers}                          *)
SeedRegistry(found) == IdentityDict(SortedForLoad(found))

(* src/core/theme.py:89-102 *)
SPEAKER_COLORS ==
    << "#ff7b7b", "#7bffb5", "#7bb5ff", "#ffdf7b", "#d87bff", "#7bfff5",
       "#ffb57b", "#b5ff7b", "#ff7bdf", "#7bdfff", "#c4a5ff", "#a5ffc4" >>

(* src/core/theme.py:105-116, index counted from 0 *)
get_speaker_color(index) == SPEAKER_COLORS[(index % Len(SPEAKER_COLORS)) + 1]

(* src/core/theme.py:119-132: the dict comprehension over                  *)
(* enumerate(speaker_ids); a later position of a name overwrites an        *)
(* earlier one.                                                            *)
RECURSIVE ColorsFrom(_, _, _)
ColorsFrom(acc, speaker_ids, i) ==
    IF i > Len(speaker_ids) THEN acc
    ELSE ColorsFrom(DSet(acc, speaker_ids[i], get_speaker_color(i - 1)),
                    speaker_ids, i + 1)

assign_speaker_colors(speaker_ids) == ColorsFrom(<<>>, speaker_ids, 1)

(* The seeds str hashing may draw at interpreter start, and list(set(S)):  *)
(* the order in which a set of strings is iterated follows the hashes, so  *)
(* it is one order under one seed and another under another.               *)
HashSeeds == {"a", "b"}

Reverse(s) == [i \in 1..Len(s) |-> s[Len(s) + 1 - i]]

ListOfSet(S, seed) == IF seed = "a" THEN SortedPlain(S) ELSE Reverse(SortedPlain(S))

NoPaint == [done |-> FALSE, speakers |-> <<>>, colors |-> <<>>]

(* update_preview_with_colors (lines 2108-2131) on the transcript and the  *)
(* registry it finds: nothing without a transcript, otherwise              *)
(* speaker_names = list(set(self.speakers.values())) and                   *)
(* config["speaker_colors"] = assign_speaker_colors(speaker_names).        *)
UpdatePreviewWithColors(transcript, sp) ==
    LET speaker_names == IF sp # <<>> THEN ListOfSet(DValues(sp), hash_seed) ELSE <<>>
        colors == assign_speaker_colors(speaker_names)
    IN IF transcript = <<>>
       THEN UNCHANGED <<speaker_colors, painted>>
       ELSE /\ speaker_colors' = colors
            /\ painted' = IF painted.done THEN painted
                          ELSE [done |-> TRUE, speakers |-> sp, colors |-> colors]

(* extract_audio: the audio of the media file, written next to it as       *)
(* _temp_audio.wav (ffmpeg at work on a media file that exists).           *)
ExtractAudio(media_file) == <<"_temp_audio", ".wav">>

(* The recordings on disk last 80 seconds, in tenths of a second. *)
MediaDuration == 800

(* Lines 1326-1334: audio_duration = float(ffprobe's answer) *)
ProbedDuration(media_file) == MediaDuration

(* A loader that pattern-matches the segments out of the text whether or   *)
(* not a sidecar was read.                                                 *)
LoadedSegments_Reparse(data, text, useJson) == LegacySegments(text)

(* Lines 1359 and 1388 against lines 1402-1413: the segments of the        *)
(* sidecar when one was read, else the segments matched out of the text.   *)
LoadedSegments(data, text, useJson) ==
    IF useJson THEN data.segments ELSE LegacySegments(text)

LoadTranscriptDirectly(file_path) ==
    LET isJson == EndsWith(file_path, ".json")
        sidecar == SidecarPath(file_path)
        src == IF isJson THEN file_path ELSE sidecar
        useJson == isJson \/ Exists(sidecar)
        parseFails == useJson /\ ~ParsesAsJson(src)
        data == files[src].json
        text == IF isJson THEN RebuildTranscript(data.segments)
                ELSE files[file_path].lines
    IN
    /\ ops.edits < MaxOps
    /\ ops' = [ops EXCEPT !.edits = @ + 1]
    /\ Exists(file_path)
    /\ EndsWith(file_path, ".json") \/ EndsWith(file_path, ".txt")
    /\ current_output_file' = file_path
    /\ IF parseFails
       THEN \* json.load raises: the handler ends here
            /\ current_transcript' =
                   IF isJson THEN current_transcript ELSE files[file_path].lines
            /\ UNCHANGED <<current_media_file, speakers, speaker_avatars,
                           speaker_genders, segments_data, uiVars,
                           speaker_colors, painted>>
       ELSE /\ current_transcript' = text
            /\ segments_data' = LoadedSegments(data, text, useJson)
            /\ IF useJson
               THEN /\ current_media_file' = data.media_file
                    /\ speaker_avatars' = MergeLoaded(speaker_avatars, data.avatars)
                    /\ speaker_genders' = MergeLoaded(speaker_genders, data.genders)
               ELSE UNCHANGED <<current_media_file, speaker_avatars, speaker_genders>>
            /\ speakers' = SeedRegistry(FoundSpeakers(text))
            /\ PopulateSpeakersTab
            /\ UpdatePreviewWithColors(text, SeedRegistry(FoundSpeakers(text)))
    /\ lastSave' = IF file_path \in {lastSave.txt, lastSave.json} /\ ~parseFails
                   THEN lastSave ELSE NoSave
    /\ IF ~parseFails /\ useJson /\ data.media_file # NoPath /\ Exists(data.media_file)
       THEN /\ temp_audio_file' = ExtractAudio(data.media_file)
            /\ audio_duration' = ProbedDuration(data.media_file)
       ELSE UNCHANGED <<temp_audio_file, audio_duration>>
    /\ UNCHANGED <<runVars, files, vocabVars, bardVars, is_playing, elapsed, active_speakers,
                   active_speaker_ids, is_paused, playback_offset, played, hash_seed>>
    /\ OwnerStep(Op("load", file_path, <<>>, <<>>, IF parseFails THEN "parse" ELSE "none"))

-----------------------------------------------------------------------------
(* set_speaker_avatar, handle_file_input                                   *)

SetSpeakerAvatar(speaker_id, file_path) ==
    /\ ops.edits < MaxOps
    /\ ops' = [ops EXCEPT !.edits = @ + 1]
    /\ DHas(speaker_entries, speaker_id)
    /\ speaker_avatars' = DSet(speaker_avatars, speaker_id, file_path)
    /\ lastSave' = NoSave
    /\ UNCHANGED <<current_transcript, current_output_file, current_media_file,
                   speakers, speaker_genders, segments_data, uiVars, runVars,
                   files, vocabVars, bardVars, colorVars, playVars>>
    /\ OwnerStep(Op("avatar", NoPath, <<<<speaker_id, file_path>>>>, <<>>, "none"))

SelectMedia(file_path) ==
    /\ Exists(file_path)
    /\ files[file_path].kind = "media"
    /\ selected_file' = file_path
    /\ current_media_file' = file_path
    /\ lastSave' = NoSave
    /\ UNCHANGED <<current_transcript, current_output_file, speakers, speaker_avatars,
                   speaker_genders, segments_data, uiVars, is_transcribing,
                   transcription_stop_requested, worker, after_queue, files, vocabVars, bardVars, colorVars, playVars,
                   ops>>
    /\ OwnerStep(Op("select", file_path, <<>>, <<>>, "none"))

-----------------------------------------------------------------------------
(* save_mapping_file                                                       *)

(* Lines 1675-1676: for speaker_id, entry in speaker_entries.items():      *)
(*   speakers[speaker_id] = entry.get().strip() or speaker_id              *)
RECURSIVE ReadMapping(_, _)
ReadMapping(sp, typed) ==
    IF typed = <<>> THEN sp
    ELSE ReadMapping(DSet(sp, typed[1][1],
                          IF typed[1][2] # "" THEN typed[1][2] ELSE typed[1][1]),
                     Tail(typed))

MappingPath == <<"map", ".txt">>

(* Lines 1678-1680: one line old=new per registry entry. *)
MappingLines(sp) == [i \in 1..Len(sp) |-> Line(<<>>, <<sp[i][1], "=", sp[i][2]>>)]

SaveMappingFile(typed) ==
    /\ ops.edits < MaxOps
    /\ ops' = [ops EXCEPT !.edits = @ + 1]
    /\ speakers' = ReadMapping(speakers, typed)
    /\ files' = WriteFile(files, MappingPath, TextFile(MappingLines(speakers')))
    /\ lastSave' = NoSave
    /\ UNCHANGED <<current_transcript, current_output_file, current_media_file,
                   speaker_avatars, speaker_genders, segments_data, uiVars, runVars,
                   vocabVars, bardVars, colorVars, playVars>>
    /\ OwnerStep(Op("save_mapping", MappingPath, typed, <<>>, "none"))

-----------------------------------------------------------------------------
(* Playback: start_playback, update_playback, stop_playback                *)

(* Times are tenths of a second: the tolerance of 0.5 s. *)
Tolerance == 5

(* Lines 1962-1965: start <= current_time <= end, with                     *)
(* start = segment["start"] - 0.5 and end = segment["end"] + 0.5           *)
InWindow(segment, current_time) ==
    /\ segment.start - Tolerance <= current_time
    /\ current_time <= segment.end + Tolerance

(* Lines 1968-1972: the first registry entry, in the order of the dict,    *)
(* whose key or value is the speaker of the segment; 0 when there is none. *)
FirstMatch(sp, speaker) ==
    LET hits == {i \in 1..Len(sp) : sp[i][1] = speaker \/ sp[i][2] = speaker}
    IN IF hits = {} THEN 0 ELSE CHOOSE i \in hits : \A j \in hits : i <= j

ActiveEntries(sp, segments, current_time) ==
    {FirstMatch(sp, segments[i].speaker) :
        i \in {j \in 1..Len(segments) : InWindow(segments[j], current_time)}} \ {0}

(* update_speaker_indicators, lines 1960-1972 *)
UpdateSpeakerIndicators(current_time) ==
    LET hit == ActiveEntries(speakers, segments_data, current_time)
    IN /\ active_speakers' =
              {IF speakers[i][2] # "" THEN speakers[i][2] ELSE speakers[i][1] : i \in hit}
       /\ active_speaker_ids' = {speakers[i][1] : i \in hit}

(* Where a playback may stand, in tenths of a second. *)
PlaybackTimes == {40, 45, 46, 84, 85, 90, 720}

(* start_playback(start_time), lines 1768-1799: a paused playback resumes  *)
(* from the remembered offset; the clock is read into playback_start_time; *)
(* its last call is update_playback, which runs update_speaker_indicators  *)
(* at once.  The play button is disabled while audio plays.                *)
StartPlayback(start_time) ==
    LET from == IF is_paused THEN playback_offset ELSE start_time
    IN /\ temp_audio_file # NoPath
       /\ ~is_playing
       /\ is_playing' = TRUE
       /\ is_paused' = FALSE
       /\ playback_offset' = from
       /\ played' = 0
       /\ elapsed' = from
       /\ UpdateSpeakerIndicators(from)
       /\ UNCHANGED <<sessionVars, uiVars, runVars, files, vocabVars, bardVars, colorVars,
                      temp_audio_file, audio_duration, lastSave, ops>>
       /\ OwnerStep(SimpleOp("indicators"))

(* update_playback, lines 1938-1957, rescheduled by after(100, ...): the   *)
(* clock has moved on and elapsed = time.time() - playback_start_time +    *)
(* playback_offset has reached t.                                          *)
UpdatePlayback(t) ==
    /\ is_playing
    /\ t >= playback_offset + played
    /\ played' = t - playback_offset
    /\ elapsed' = t
    /\ UpdateSpeakerIndicators(t)
    /\ UNCHANGED <<sessionVars, uiVars, runVars, files, vocabVars, bardVars, colorVars,
                   temp_audio_file, is_playing, is_paused, playback_offset,
                   audio_duration, lastSave, ops>>
    /\ OwnerStep(SimpleOp("indicators"))

(* pause_playback, lines 1801-1816 *)
PausePlayback ==
    /\ is_playing
    /\ playback_offset' = played + playback_offset
    /\ is_playing' = FALSE
    /\ is_paused' = TRUE
    /\ UNCHANGED <<sessionVars, uiVars, runVars, files, vocabVars, bardVars, colorVars,
                   temp_audio_file, elapsed, active_speakers, active_speaker_ids,
                   audio_duration, played, lastSave, ops>>
    /\ OwnerStep(SimpleOp("pause_playback"))

(* stop_playback, lines 1818-1830 *)
StopPlayback ==
    /\ is_playing \/ is_paused
    /\ is_playing' = FALSE
    /\ is_paused' = FALSE
    /\ playback_offset' = 0
    /\ UNCHANGED <<sessionVars, uiVars, runVars, files, vocabVars, bardVars, colorVars,
                   temp_audio_file, elapsed, active_speakers, active_speaker_ids,
                   audio_duration, played, lastSave, ops>>
    /\ OwnerStep(SimpleOp("stop_playback"))

(* max(0, min(new_pos, self.audio_duration)), line 1845 *)
Clamp(new_pos, duration) ==
    LET low == IF new_pos < duration THEN new_pos ELSE duration
    IN IF low > 0 THEN low ELSE 0

(* The four skip buttons (lines 528-537), in tenths of a second. *)
SkipDeltas == {-100, -50, 50, 100}

(* skip_playback(delta_seconds), lines 1838-1855: while audio plays,       *)
(* stop_playback() and start_playback(new_pos); otherwise the offset is    *)
(* moved.                                                                  *)
SkipPlayback(delta_seconds) ==
    LET new_pos == Clamp(playback_offset + delta_seconds, audio_duration)
    IN /\ temp_audio_file # NoPath
       /\ playback_offset' = new_pos
       /\ IF is_playing /\ ~is_paused
          THEN /\ played' = 0
               /\ elapsed' = new_pos
               /\ UpdateSpeakerIndicators(new_pos)
          ELSE UNCHANGED <<played, elapsed, active_speakers, active_speaker_ids>>
       /\ is_paused' = IF is_playing /\ ~is_paused THEN FALSE ELSE is_paused
       /\ UNCHANGED <<sessionVars, uiVars, runVars, files, vocabVars, bardVars, colorVars,
                      temp_audio_file, is_playing, audio_duration, lastSave, ops>>
       /\ OwnerStep(Op("skip", NoPath, <<delta_seconds>>, <<>>, "none"))

-----------------------------------------------------------------------------
(* apply_speaker_names                                                     *)

(* Lines 1685-1688: for speaker_id, entry in speaker_entries.items():      *)
(*   new_name = entry.get().strip(); if new_name: speakers[speaker_id] = new_name *)
RECURSIVE ReadEntries(_, _)
ReadEntries(sp, typed) ==
    IF typed = <<>> THEN sp
    ELSE ReadEntries(IF typed[1][2] # "" THEN DSet(sp, typed[1][1], typed[1][2]) ELSE sp,
                     Tail(typed))

(* A re-keying that leaves the map under its old keys. *)
Rekey_Keep(acc, d, sp) == d

(* Lines 1696-1703 and 1710-1717: the map rebuilt under the new names. *)
RECURSIVE Rekey(_, _, _)
Rekey(acc, d, sp) ==
    IF d = <<>> THEN acc
    ELSE LET old_id == d[1][1]
             key == IF DHas(sp, old_id) THEN DGet(sp, old_id, old_id) ELSE old_id
         IN Rekey(DSet(acc, key, d[1][2]), Tail(d), sp)

(* Lines 1720-1723: for old_name, new_name in speakers.items():            *)
(*   if old_name != new_name:                                              *)
(*     new_transcript = new_transcript.replace(f"] {old}:", f"] {new}:")   *)
RECURSIVE RenameInTranscript(_, _)
RenameInTranscript(lines, sp) ==
    IF sp = <<>> THEN lines
    ELSE LET old_name == sp[1][1]
             new_name == sp[1][2]
             replaced == [i \in 1..Len(lines) |->
                            Line(lines[i].stamp,
                                 ReplaceAll(lines[i].body, <<"] ", old_name, ":">>,
                                            <<"] ", new_name, ":">>, FALSE))]
         IN RenameInTranscript(IF old_name # new_name THEN replaced ELSE lines, Tail(sp))

(* Lines 1726-1729 *)
RenameInSegments(segments, sp) ==
    [i \in 1..Len(segments) |->
        IF DHas(sp, segments[i].speaker)
        THEN [segments[i] EXCEPT !.speaker = DGet(sp, segments[i].speaker, "")]
        ELSE segments[i]]

(* A refresh that keeps the old keys: speakers[old] = new. *)
RECURSIVE RefreshRegistry_OldKeys(_, _)
RefreshRegistry_OldKeys(acc, old_speakers) ==
    IF old_speakers = <<>> THEN acc
    ELSE RefreshRegistry_OldKeys(DSet(acc, old_speakers[1][1], old_speakers[1][2]),
                                 Tail(old_speakers))

(* Lines 1752-1755: speakers.clear(); for old, new in old_speakers.items(): *)
(*   speakers[new] = new                                                   *)
RECURSIVE RefreshRegistry(_, _)
RefreshRegistry(acc, old_speakers) ==
    IF old_speakers = <<>> THEN acc
    ELSE RefreshRegistry(DSet(acc, old_speakers[1][2], old_speakers[1][2]),
                         Tail(old_speakers))

SidecarObject(media, segments, avatars, genders, has_genders) ==
    [media_file |-> media, segments |-> segments, avatars |-> avatars,
     genders |-> genders, has_genders |-> has_genders]

(* typed: what each entry holds when the button is pressed; chosen: what   *)
(* each gender menu holds; fail: where the save raises (Failures).         *)
ApplySpeakerNames(typed, chosen, fail) ==
    LET sp1 == ReadEntries(speakers, typed)
        ge1 == DUpdate(speaker_genders, chosen)
        new_avatars == Rekey(<<>>, speaker_avatars, sp1)
        new_genders == Rekey(<<>>, ge1, sp1)
        new_transcript == RenameInTranscript(current_transcript, sp1)
        new_segments == RenameInSegments(segments_data, sp1)
        saving == current_output_file # NoPath
        named_path == NamedPath(current_output_file)
        json_path == NamedJsonPath(named_path)
        obj == SidecarObject(current_media_file, new_segments, new_avatars,
                             new_genders, TRUE)
        raised == saving /\ fail # "none"
        fs1 == IF saving /\ fail # "txt"
               THEN WriteFile(files, named_path, TextFile(new_transcript)) ELSE files
        fs2 == IF saving /\ fail = "none"
               THEN WriteFile(fs1, json_path, JsonFile(obj))
               ELSE IF saving /\ fail = "dump"
                    THEN WriteFile(fs1, json_path, GarbageFile) ELSE fs1
    IN
    /\ ops.edits < MaxOps
    /\ ops' = [ops EXCEPT !.edits = @ + 1]
    /\ cards_built
    /\ fail # "none" => saving
    /\ speaker_avatars' = new_avatars
    /\ speaker_genders' = new_genders
    /\ current_transcript' = new_transcript
    /\ segments_data' = new_segments
    /\ files' = fs2
    /\ IF raised
       THEN /\ speakers' = sp1
            /\ UNCHANGED <<uiVars, speaker_colors, painted>>
       ELSE /\ speakers' = RefreshRegistry(<<>>, sp1)
            /\ UpdatePreviewWithColors(new_transcript, RefreshRegistry(<<>>, sp1))
            /\ PopulateSpeakersTab
    /\ lastSave' = IF saving /\ fail = "none"
                   THEN [valid |-> TRUE, by |-> "apply", txt |-> named_path,
                         json |-> json_path, segments |-> new_segments,
                         avatars |-> new_avatars, genders |-> new_genders]
                   ELSE NoSave
    /\ UNCHANGED <<current_output_file, current_media_file, runVars, vocabVars, bardVars, playVars,
                   hash_seed>>
    /\ OwnerStep(Op("apply", IF saving THEN named_path ELSE NoPath, typed, chosen, fail))

-----------------------------------------------------------------------------
(* The transcription run: start_transcription, stop_transcription, the     *)
(* worker thread run_transcription, and the callbacks it schedules.        *)

NumChecks == 8

RawSegment(start_ok, start, has_end, end, has_speaker, speaker, text) ==
    [start_ok |-> start_ok, start |-> start, has_end |-> has_end, end |-> end,
     has_speaker |-> has_speaker, speaker |-> speaker, text |-> text]

Worker(pc, stage, outcome, raw, idx, lines, found, base) ==
    [pc |-> pc, stage |-> stage, outcome |-> outcome, raw |-> raw, idx |-> idx,
     lines |-> lines, found |-> found, base |-> base]

IdleWorker == Worker("idle", 0, "none", <<>>, 0, <<>>, {}, "")

EndedWorker(outcome) == Worker("done", 0, outcome, <<>>, 0, <<>>, {}, "")

(* A start_transcription that looks at the selected file only. *)
MayStart_Whenever == selected_file # NoPath

(* Lines 909-914: the two early returns of start_transcription. *)
MayStart == selected_file # NoPath /\ ~is_transcribing

(* start_transcription turns the press away (lines 909-914). *)
StartIgnored ==
    /\ ~MayStart
    /\ UNCHANGED <<sessionVars, uiVars, runVars, files, vocabVars, bardVars, colorVars, playVars,
                   lastSave, ops>>
    /\ OwnerStep(SimpleOp("start_ignored"))

(* start_transcription starts a run (lines 916-930). *)
StartTranscription ==
    /\ ops' = [ops EXCEPT !.runs = @ + 1]
    /\ MayStart
    /\ is_transcribing' = TRUE
    /\ transcription_stop_requested' = FALSE
    /\ worker' = Worker("stage", 1, "none", <<>>, 0, <<>>, {}, "")
    /\ UNCHANGED <<sessionVars, uiVars, selected_file, after_queue, files,
                   vocabVars, bardVars, colorVars, playVars, lastSave>>
    /\ OwnerStep(SimpleOp("start"))

StopTranscription ==
    /\ is_transcribing
    /\ ~transcription_stop_requested
    /\ transcription_stop_requested' = TRUE
    /\ UNCHANGED <<sessionVars, uiVars, selected_file, is_transcribing, worker,
                   after_queue, files, vocabVars, bardVars, colorVars, playVars, lastSave, ops>>
    /\ OwnerStep(SimpleOp("stop"))

(* A worker that ends without scheduling a callback. *)
WorkerFails_NoCallback(outcome) ==
    /\ worker' = EndedWorker(outcome)
    /\ UNCHANGED after_queue

(* The except clause of run_transcription (lines 1244-1273) and the return *)
(* of line 1002: the thread ends and transcription_failed is scheduled.    *)
WorkerFails(outcome) ==
    /\ worker' = EndedWorker(outcome)
    /\ after_queue' = Append(after_queue, "transcription_failed")

(* Stage 1 is the check of line 991 and the token check; stage k > 1 is a  *)
(* step of the external pipeline followed by its check of the stop flag    *)
(* (lines 1019, 1036, 1056, 1102, 1133, 1152, 1163).  stage_ok: the step   *)
(* does not raise (for stage 1: the HuggingFace token is configured).      *)
WorkerStage(stage_ok, result) ==
    /\ worker.pc = "stage"
    /\ IF worker.stage = 1
       THEN IF transcription_stop_requested THEN WorkerFails("stopped")
            ELSE IF ~stage_ok THEN WorkerFails("token")
            ELSE /\ worker' = [worker EXCEPT !.stage = 2]
                 /\ UNCHANGED after_queue
       ELSE IF ~stage_ok THEN WorkerFails("failed")
            ELSE IF transcription_stop_requested THEN WorkerFails("stopped")
            ELSE IF worker.stage < NumChecks
            THEN /\ worker' = [worker EXCEPT !.stage = worker.stage + 1]
                 /\ UNCHANGED after_queue
            ELSE /\ worker' = [worker EXCEPT !.pc = "build", !.raw = result]
                 /\ UNCHANGED after_queue
    /\ WorkerStep(SimpleOp("stage"))
    /\ UNCHANGED <<sessionVars, uiVars, selected_file, is_transcribing,
                   transcription_stop_requested, files, vocabVars, bardVars, colorVars, playVars, lastSave, ops>>

(* Lines 1169-1174 *)
WorkerBuild ==
    /\ worker.pc = "build"
    /\ worker' = [worker EXCEPT !.pc = "loop", !.idx = 1, !.found = {},
                                !.base = BaseName(selected_file),
                                !.lines = <<TitleLine, RuleLine,
                                            Line(<<>>, <<"File", ":", " ",
                                                         BaseName(selected_file)>>),
                                            BlankLine>>]
    /\ segments_data' = <<>>
    /\ WorkerStep(SimpleOp("build"))
    /\ lastSave' = NoSave
    /\ UNCHANGED <<current_transcript, current_output_file, current_media_file,
                   speakers, speaker_avatars, speaker_genders, uiVars, selected_file,
                   is_transcribing, transcription_stop_requested, after_queue,
                   files, vocabVars, bardVars, colorVars, playVars, ops>>

(* A loop that stores what the producer gave, gaps and all. *)
StoredSegment_AsGiven(segment) ==
    Segment(segment.start, segment.end, segment.speaker, Strip(segment.text))

(* Lines 1177-1180: speaker = segment.get("speaker", "UNKNOWN");           *)
(* text = segment.get("text", "").strip(); start = segment.get("start", 0); *)
(* end = segment.get("end", start + 1)                                     *)
StoredSegment(segment) ==
    Segment(segment.start,
            IF segment.has_end THEN segment.end ELSE segment.start + 10,
            IF segment.has_speaker THEN segment.speaker ELSE "UNKNOWN",
            Strip(segment.text))

(* One turn of the loop of lines 1176-1192 *)
WorkerLoop ==
    /\ worker.pc = "loop"
    /\ worker.idx <= Len(worker.raw)
    /\ LET segment == worker.raw[worker.idx]
           stored == StoredSegment(segment)
           speaker == stored.speaker
           text == stored.text
           start == stored.start
           end == stored.end
       IN IF ~segment.start_ok
          THEN \* start + 1 raises TypeError
               /\ WorkerFails("failed")
               /\ UNCHANGED segments_data
          ELSE /\ UNCHANGED after_queue
               /\ IF text # <<>>
                  THEN /\ worker' = [worker EXCEPT
                                        !.idx = worker.idx + 1,
                                        !.lines = Append(worker.lines,
                                                         FormatLine(start, speaker, text)),
                                        !.found = worker.found \cup {speaker}]
                       /\ segments_data' =
                              Append(segments_data, Segment(start, end, speaker, text))
                  ELSE /\ worker' = [worker EXCEPT !.idx = worker.idx + 1]
                       /\ UNCHANGED segments_data
    /\ WorkerStep(SimpleOp("loop"))
    /\ UNCHANGED <<current_transcript, current_output_file, current_media_file,
                   speakers, speaker_avatars, speaker_genders, uiVars, selected_file,
                   is_transcribing, transcription_stop_requested, files, vocabVars, bardVars, colorVars, playVars,
                   lastSave, ops>>

(* Lines 1194-1200 *)
WorkerJoin ==
    /\ worker.pc = "loop"
    /\ worker.idx > Len(worker.raw)
    /\ worker' = [worker EXCEPT !.pc = "save_txt"]
    /\ current_transcript' = ApplyVocabularyCorrections(worker.lines)
    /\ current_media_file' = selected_file
    /\ WorkerStep(SimpleOp("join"))
    /\ UNCHANGED <<current_output_file, speakers, speaker_avatars, speaker_genders,
                   segments_data, uiVars, selected_file, is_transcribing,
                   transcription_stop_requested, after_queue, files, vocabVars, bardVars, colorVars, playVars,
                   lastSave, ops>>

(* Lines 1206-1208; write_ok: open() and write() do not raise. *)
WorkerSaveText(write_ok) ==
    /\ worker.pc = "save_txt"
    /\ IF write_ok
       THEN /\ files' = WriteFile(files, NotesPath(worker.base),
                                  TextFile(current_transcript))
            /\ worker' = [worker EXCEPT !.pc = "save_json"]
            /\ UNCHANGED after_queue
       ELSE /\ WorkerFails("failed")
            /\ UNCHANGED files
    /\ WorkerStep(SimpleOp("save_txt"))
    /\ UNCHANGED <<sessionVars, uiVars, selected_file, is_transcribing,
                   transcription_stop_requested, vocabVars, bardVars, colorVars, playVars, lastSave, ops>>

(* Lines 1211-1217: media_file, segments and avatars, no genders. *)
WorkerSaveJson(write_ok) ==
    /\ worker.pc = "save_json"
    /\ IF write_ok
       THEN /\ files' = WriteFile(files, SegmentsPath(worker.base),
                                  JsonFile(SidecarObject(selected_file, segments_data,
                                                         speaker_avatars, <<>>, FALSE)))
            /\ worker' = [worker EXCEPT !.pc = "commit"]
            /\ lastSave' = [valid |-> TRUE, by |-> "ingest",
                            txt |-> NotesPath(worker.base),
                            json |-> SegmentsPath(worker.base),
                            segments |-> segments_data, avatars |-> speaker_avatars,
                            genders |-> speaker_genders]
            /\ UNCHANGED after_queue
       ELSE /\ WorkerFails("failed")
            /\ UNCHANGED <<files, lastSave>>
    /\ WorkerStep(SimpleOp("save_json"))
    /\ UNCHANGED <<sessionVars, uiVars, selected_file, is_transcribing,
                   transcription_stop_requested, vocabVars, bardVars, colorVars, playVars, ops>>

(* Lines 1220-1223 *)
WorkerCommit ==
    /\ worker.pc = "commit"
    /\ current_output_file' = NotesPath(worker.base)
    /\ speakers' = IdentityDict(SortedPlain(worker.found))
    /\ worker' = [worker EXCEPT !.pc = "finish"]
    /\ WorkerStep(SimpleOp("commit"))
    /\ UNCHANGED <<current_transcript, current_media_file, speaker_avatars,
                   speaker_genders, segments_data, uiVars, selected_file,
                   is_transcribing, transcription_stop_requested, after_queue,
                   files, vocabVars, bardVars, colorVars, playVars, lastSave, ops>>

(* Lines 1228-1242 *)
WorkerFinish ==
    /\ worker.pc = "finish"
    /\ worker' = EndedWorker("complete")
    /\ after_queue' = Append(after_queue, "transcription_complete")
    /\ temp_audio_file' = ExtractAudio(selected_file)
    /\ audio_duration' = ProbedDuration(selected_file)
    /\ WorkerStep(SimpleOp("finish"))
    /\ UNCHANGED <<sessionVars, uiVars, selected_file, is_transcribing,
                   transcription_stop_requested, files, vocabVars, bardVars, colorVars,
                   is_playing, elapsed, active_speakers, active_speaker_ids,
                   is_paused, playback_offset, played, lastSave, ops>>

(* transcription_complete, run by the Tk loop *)
TranscriptionComplete ==
    /\ after_queue # <<>>
    /\ Head(after_queue) = "transcription_complete"
    /\ after_queue' = Tail(after_queue)
    /\ is_transcribing' = FALSE
    /\ UNCHANGED <<sessionVars, selected_file, transcription_stop_requested, worker,
                   files, vocabVars, bardVars, colorVars, playVars, lastSave, ops>>
    /\ PopulateSpeakersTab
    /\ OwnerStep(SimpleOp("transcription_complete"))

(* transcription_failed, run by the Tk loop *)
TranscriptionFailed ==
    /\ after_queue # <<>>
    /\ Head(after_queue) = "transcription_failed"
    /\ after_queue' = Tail(after_queue)
    /\ is_transcribing' = FALSE
    /\ UNCHANGED <<sessionVars, uiVars, selected_file, transcription_stop_requested,
                   worker, files, vocabVars, bardVars, colorVars, playVars, lastSave, ops>>
    /\ WorkerStep(SimpleOp("transcription_failed"))

-----------------------------------------------------------------------------
(* The bard's tale and the session summary: start_bard_tale,               *)
(* start_session_summary, stop_bard_tale, the worker threads run_bard_tale *)
(* and run_session_summary, call_llm, and bard_tale_complete.              *)

MaxTales == 1
MaxRetries == 2

(* The digits of f"{n:02d}" *)
Digits(n) == IF n < 100 THEN 2 ELSE IF n < 1000 THEN 3 ELSE 4

RECURSIVE SumLen(_)
SumLen(tokens) == IF tokens = <<>> THEN 0 ELSE Len(tokens[1]) + SumLen(Tail(tokens))

RECURSIVE StampLen(_)
StampLen(parts) ==
    IF parts = <<>> THEN 0 ELSE 1 + Digits(parts[1]) + StampLen(Tail(parts))

(* len(self.current_transcript): the characters of the lines and the       *)
(* newlines between them.                                                  *)
RECURSIVE TextLength(_)
TextLength(lines) ==
    IF lines = <<>> THEN 0
    ELSE StampLen(lines[1].stamp) + SumLen(lines[1].body)
         + (IF Len(lines) > 1 THEN 1 + TextLength(Tail(lines)) ELSE 0)

IdleBard == [pc |-> "idle", kind |-> "none", provider |-> "none", size |-> 0,
             i |-> 0, n |-> 0]

NoHist == [stop_seen |-> FALSE, returned |-> FALSE, sent_after_stop |-> FALSE,
           retries |-> 0]

Providers == {"Groq (Cloud)", "Ollama (Local)"}

(* What the service may answer: a completion, a refusal of the key, a rate *)
(* limit, a server error, or nothing (the request raises).                 *)
Answers == {"200", "401", "429", "500", "raised"}

ChunkSizes == {1, 50}

(* Lines 2275-2278 and 2280-2281 (the same in start_session_summary) *)
MayTell == TextLength(current_transcript) >= 100 /\ ~bard_running

(* start_bard_tale (kind "tale", lines 2275-2294) and start_session_summary *)
(* (kind "summary"): the flags, and a thread that has not run yet.         *)
StartBardTale(kind, provider, chunk_size) ==
    /\ ops.runs < MaxTales
    /\ ops' = [ops EXCEPT !.runs = @ + 1]
    /\ MayTell
    /\ bard_running' = TRUE
    /\ bard_stop_requested' = FALSE
    /\ bard_worker' = [pc |-> "begin", kind |-> kind, provider |-> provider,
                       size |-> IF kind = "tale" THEN chunk_size ELSE 200,
                       i |-> 1, n |-> 0]
    /\ bard_hist' = NoHist
    /\ UNCHANGED <<sessionVars, uiVars, runVars, files, vocabVars, colorVars, playVars,
                   bard_status, bard_queue, lastSave>>
    /\ OwnerStep(SimpleOp("start_bard"))

(* stop_bard_tale (lines 2296-2299); its button is enabled from the start  *)
(* of a generation to bard_tale_complete.                                  *)
StopBardTale ==
    /\ bard_running
    /\ ~bard_stop_requested
    /\ bard_stop_requested' = TRUE
    /\ bard_status' = "Stopping..."
    /\ bard_hist' = [bard_hist EXCEPT !.stop_seen = TRUE]
    /\ UNCHANGED <<sessionVars, uiVars, runVars, files, vocabVars, colorVars, playVars,
                   bard_running, bard_worker, bard_queue, lastSave, ops>>
    /\ OwnerStep(SimpleOp("stop_bard"))

(* update_bard_status (lines 2572-2575): the label is set by a callback. *)
Status(message) == <<"status", message>>

(* self.root.after(0, self.bard_tale_complete) and the thread's return *)
BardEnds(queue) ==
    /\ bard_queue' = Append(queue, <<"bard_tale_complete", "">>)
    /\ bard_worker' = [bard_worker EXCEPT !.pc = "done"]

(* A request goes out to the service, as a retry of the one that has just  *)
(* returned or as the next call_llm.  The history keeps whether a request  *)
(* has returned with the stop flag set, and whether one was sent after     *)
(* that.                                                                   *)
Sends(retry) ==
    LET returned == bard_hist.returned \/ (retry /\ bard_stop_requested)
    IN bard_hist' = [bard_hist EXCEPT
                        !.returned = returned,
                        !.sent_after_stop = @ \/ returned,
                        !.retries = IF retry THEN @ + 1 ELSE @]

(* range(0, len(lines), chunk_size) has this many turns. *)
Chunks(lines, size) == (lines + size - 1) \div size

(* The head of the worker: it reads the dialogue lines of the transcript   *)
(* (lines 2389-2395); none ends it (2397-2400, 2683-2686); a tale asks for *)
(* its title (2407-2416), a summary enters its loop (2688).                *)
BardBegin ==
    /\ bard_worker.pc = "begin"
    /\ LET lines == Len(SelectSeq(current_transcript, IsDialogueLine))
           n == Chunks(lines, bard_worker.size)
       IN IF lines = 0
          THEN /\ BardEnds(bard_queue)
               /\ UNCHANGED bard_hist
          ELSE IF bard_worker.kind = "tale"
          THEN /\ bard_queue' = Append(bard_queue, Status("Generating title..."))
               /\ bard_worker' = [bard_worker EXCEPT !.pc = "title", !.n = n]
               /\ Sends(FALSE)
          ELSE /\ bard_queue' =
                      Append(bard_queue, Status("Reading the scrolls for summary..."))
               /\ bard_worker' = [bard_worker EXCEPT !.pc = "loop", !.n = n]
               /\ UNCHANGED bard_hist
    /\ UNCHANGED <<sessionVars, uiVars, runVars, files, vocabVars, colorVars, playVars,
                   bard_running, bard_stop_requested, bard_status, lastSave, ops>>
    /\ WorkerStep(SimpleOp("bard_begin"))

(* The head of the chunk loop (lines 2429-2431, 2696-2698): the stop flag  *)
(* breaks it, otherwise the chunk's request goes out (2439-2465,           *)
(* 2704-2715).                                                             *)
BardLoop ==
    /\ bard_worker.pc = "loop"
    /\ IF bard_worker.i > bard_worker.n \/ bard_stop_requested
       THEN /\ bard_worker' = [bard_worker EXCEPT !.pc = "after"]
            /\ UNCHANGED <<bard_queue, bard_hist>>
       ELSE /\ bard_queue' =
                   Append(bard_queue,
                          Status(IF bard_worker.kind = "tale" THEN "Weaving chapter..."
                                 ELSE "Summarizing part..."))
            /\ bard_worker' = [bard_worker EXCEPT !.pc = "chunk"]
            /\ Sends(FALSE)
    /\ UNCHANGED <<sessionVars, uiVars, runVars, files, vocabVars, colorVars, playVars,
                   bard_running, bard_stop_requested, bard_status, lastSave, ops>>
    /\ WorkerStep(SimpleOp("bard_loop"))

(* After the loop: a tale asks for its closing unless the stop flag is set *)
(* (lines 2473-2480), a summary ends on the stop flag and asks for the     *)
(* final recap otherwise (2717-2741).                                      *)
BardAfter ==
    /\ bard_worker.pc = "after"
    /\ IF bard_stop_requested
       THEN /\ BardEnds(bard_queue)
            /\ UNCHANGED bard_hist
       ELSE /\ bard_queue' =
                   Append(bard_queue,
                          Status(IF bard_worker.kind = "tale"
                                 THEN "Adding the bard's closing..."
                                 ELSE "Writing the final recap..."))
            /\ bard_worker' = [bard_worker EXCEPT !.pc = "last"]
            /\ Sends(FALSE)
    /\ UNCHANGED <<sessionVars, uiVars, runVars, files, vocabVars, colorVars, playVars,
                   bard_running, bard_stop_requested, bard_status, lastSave, ops>>
    /\ WorkerStep(SimpleOp("bard_after"))

(* call_groq and call_ollama on the answer (lines 2521-2526, 2553-2570):   *)
(* does the call send the request again?  Groq does on HTTP 429, after     *)
(* time.sleep(5).                                                          *)
Retries(provider, answer) == provider = "Groq (Cloud)" /\ answer = "429"

(* The service answers the request in flight and the worker goes on from   *)
(* the call: after the title (lines 2416-2419), after a chunk of a tale    *)
(* (2465-2467), after a chunk of a summary (2715-2716), after the closing  *)
(* or the final recap (2478-2482, 2741-2747).                              *)
BardAnswer(answer) ==
    /\ bard_worker.pc \in {"title", "chunk", "last"}
    /\ answer = "429" => bard_hist.retries < MaxRetries
    /\ IF Retries(bard_worker.provider, answer)
       THEN /\ Sends(TRUE)
            /\ UNCHANGED <<bard_worker, bard_queue>>
       ELSE /\ bard_hist' = [bard_hist EXCEPT !.returned = @ \/ bard_stop_requested]
            /\ IF bard_worker.pc = "title"
               THEN IF bard_stop_requested THEN BardEnds(bard_queue)
                    ELSE /\ bard_worker' = [bard_worker EXCEPT !.pc = "loop"]
                         /\ UNCHANGED bard_queue
               ELSE IF bard_worker.pc = "chunk"
               THEN /\ UNCHANGED bard_queue
                    /\ bard_worker' =
                           IF bard_worker.kind = "tale" /\ bard_stop_requested
                           THEN [bard_worker EXCEPT !.pc = "after"]
                           ELSE [bard_worker EXCEPT !.pc = "loop", !.i = @ + 1]
               ELSE BardEnds(bard_queue)
    /\ UNCHANGED <<sessionVars, uiVars, runVars, files, vocabVars, colorVars, playVars,
                   bard_running, bard_stop_requested, bard_status, lastSave, ops>>
    /\ WorkerStep(Op("bard_answer", NoPath, <<>>, <<>>, IF answer = "200" THEN "none" ELSE "llm"))

(* The Tk loop runs the next callback: a status update, or                 *)
(* bard_tale_complete (lines 2582-2592), which clears the stop flag (2585) *)
(* and reads it for the label afterwards (2591).                           *)
BardCallback ==
    /\ bard_queue # <<>>
    /\ bard_queue' = Tail(bard_queue)
    /\ IF Head(bard_queue)[1] = "status"
       THEN /\ bard_status' = Head(bard_queue)[2]
            /\ UNCHANGED <<bard_running, bard_stop_requested>>
       ELSE /\ bard_running' = FALSE
            /\ bard_stop_requested' = FALSE
            /\ bard_status' = IF ~bard_stop_requested' THEN "Tale complete!" ELSE "Stopped"
    /\ UNCHANGED <<sessionVars, uiVars, runVars, files, vocabVars, colorVars, playVars,
                   bard_worker, bard_hist, lastSave, ops>>
    /\ OwnerStep(SimpleOp(Head(bard_queue)[1]))

-----------------------------------------------------------------------------
(* The application is closed and opened again: the state of __init__,      *)
(* the files stay.  The worker is a daemon thread and ends with it.        *)

EmptySession == SessionOf(<<>>, NoPath, NoPath, <<>>, <<>>, <<>>, <<>>)

InitMemory ==
    /\ selected_file = NoPath
    /\ is_transcribing = FALSE
    /\ transcription_stop_requested = FALSE
    /\ current_transcript = <<>>
    /\ current_output_file = NoPath
    /\ current_media_file = NoPath
    /\ speakers = <<>>
    /\ speaker_avatars = <<>>
    /\ speaker_genders = <<>>
    /\ segments_data = <<>>
    /\ speaker_entries = <<>>
    /\ speaker_gender_vars = <<>>
    /\ cards_built = FALSE
    /\ worker = IdleWorker
    /\ after_queue = <<>>
    /\ temp_audio_file = NoPath
    /\ is_playing = FALSE
    /\ elapsed = 0
    /\ is_paused = FALSE
    /\ playback_offset = 0
    /\ audio_duration = 0
    /\ played = 0
    /\ active_speakers = {}
    /\ active_speaker_ids = {}
    /\ speaker_colors = <<>>
    /\ bard_running = FALSE
    /\ bard_stop_requested = FALSE
    /\ bard_status = "Ready to weave tales..."
    /\ bard_worker = IdleBard
    /\ bard_queue = <<>>
    /\ bard_hist = NoHist

(* The process ends and the application is started again, under the seed   *)
(* the new interpreter draws.                                              *)
Restart(seed) ==
    /\ Session # EmptySession \/ worker.pc # "idle" \/ selected_file # NoPath
    /\ selected_file' = NoPath
    /\ is_transcribing' = FALSE
    /\ transcription_stop_requested' = FALSE
    /\ current_transcript' = <<>>
    /\ current_output_file' = NoPath
    /\ current_media_file' = NoPath
    /\ speakers' = <<>>
    /\ speaker_avatars' = <<>>
    /\ speaker_genders' = <<>>
    /\ segments_data' = <<>>
    /\ speaker_entries' = <<>>
    /\ speaker_gender_vars' = <<>>
    /\ cards_built' = FALSE
    /\ worker' = IdleWorker
    /\ after_queue' = <<>>
    /\ temp_audio_file' = NoPath
    /\ is_playing' = FALSE
    /\ elapsed' = 0
    /\ is_paused' = FALSE
    /\ playback_offset' = 0
    /\ audio_duration' = 0
    /\ played' = 0
    /\ active_speakers' = {}
    /\ active_speaker_ids' = {}
    /\ hash_seed' = seed
    /\ speaker_colors' = <<>>
    /\ bard_running' = FALSE
    /\ bard_stop_requested' = FALSE
    /\ bard_status' = "Ready to weave tales..."
    /\ bard_worker' = IdleBard
    /\ bard_queue' = <<>>
    /\ bard_hist' = NoHist
    /\ UNCHANGED <<files, vocabVars, lastSave, ops, painted>>
    /\ OwnerStep(SimpleOp("restart"))

-----------------------------------------------------------------------------
(* The files on disk when the application is first opened: a recording,   *)
(* the session "camp" as an earlier rename saved it, a flat transcript     *)
(* without sidecar, a transcript whose sidecar is not JSON, and a flat     *)
(* transcript with an hour-stamped line.                                   *)

CampSegments ==
    << Segment(50, 80, "Alice", <<"hello">>),
       Segment(700, 750, "Bob", <<"hi", " ", "there">>) >>

CampText ==
    << TitleLine, RuleLine, Line(<<>>, <<"File", ":", " ", "camp">>), BlankLine,
       FormatLine(50, "Alice", <<"hello">>),
       FormatLine(700, "Bob", <<"hi", " ", "there">>) >>

LegacyText ==
    << Line(<<0, 5>>, <<"] ", "Alice", ":", " ", "Hello">>),
       Line(<<1, 10>>, <<"] ", "Bob", ":", " ", "Hi", " ", "there">>) >>

BadText == << Line(<<0, 5>>, <<"] ", "Zara", ":", " ", "hello">>) >>

(* A flat transcript of a session longer than an hour, in the line format  *)
(* of format_timestamp: [00:05] and [01:00:05].                            *)
LongText ==
    << Line(<<0, 5>>, <<"] ", "Alice", ":", " ", "Hello">>),
       Line(<<1, 0, 5>>, <<"] ", "Bob", ":", " ", "Hi", " ", "there">>) >>

InitialFiles ==
    LET paths == { <<"rec", ".mp4">>, <<"camp", "_named", ".txt">>,
                   <<"camp", "_named", "_segments", ".json">>, <<"old", ".txt">>,
                   <<"bad", ".txt">>, <<"bad", "_segments", ".json">>,
                   <<"long", ".txt">> }
    IN [p \in paths |->
          CASE p = <<"rec", ".mp4">> -> MediaFile
            [] p = <<"camp", "_named", ".txt">> -> TextFile(CampText)
            [] p = <<"camp", "_named", "_segments", ".json">> ->
                 JsonFile(SidecarObject(<<"camp", ".mp4">>, CampSegments,
                                        << <<"Alice", "a.png">> >>,
                                        << <<"Alice", "Female">> >>, TRUE))
            [] p = <<"old", ".txt">> -> TextFile(LegacyText)
            [] p = <<"bad", ".txt">> -> TextFile(BadText)
            [] p = <<"long", ".txt">> -> TextFile(LongText)
            [] OTHER -> GarbageFile]

(* What the "load transcript" dialog offers: *.txt and *.json. *)
TranscriptFiles == {p \in DOMAIN files : files[p].kind # "media"}

(* What the producer (WhisperX with diarization) may hand over. *)
RawResults ==
    { << RawSegment(TRUE, 50, TRUE, 80, TRUE, "SPEAKER_00", <<"hello">>),
         RawSegment(TRUE, 700, TRUE, 750, TRUE, "SPEAKER_01", <<"fireball">>) >>,
      << RawSegment(TRUE, 50, TRUE, 80, TRUE, "SPEAKER_00", <<"hello">>),
         RawSegment(FALSE, 0, TRUE, 0, TRUE, "SPEAKER_01", <<"hi">>) >> }

(* A result with gaps: a segment without end, one without speaker whose    *)
(* text has blanks around it, and one whose text is blank.                 *)
SparseResult ==
    << RawSegment(TRUE, 50, FALSE, 0, TRUE, "Zara", <<"hello">>),
       RawSegment(TRUE, 100, TRUE, 130, FALSE, "", <<" ", "hi", " ">>),
       RawSegment(TRUE, 200, TRUE, 230, TRUE, "SPEAKER_00", <<" ">>) >>

AvatarFiles == {"b.png"}

-----------------------------------------------------------------------------
(* What the user may type and choose before pressing "apply"               *)

TypedNames == {"Zara"}

(* One text per entry, in the order of the cards. *)
TypedChoices(pool) ==
    LET n == Len(speaker_entries)
    IN {[i \in 1..n |-> <<speaker_entries[i][1], f[i]>>] :
          f \in {g \in [1..n -> pool \cup DKeys(speaker_entries) \cup DValues(speaker_entries)] : TRUE}}

(* One value per gender menu: the value it shows, or, on the first card,   *)
(* another one chosen.                                                     *)
GenderChoices(pool) ==
    LET n == Len(speaker_gender_vars)
    IN {[i \in 1..n |-> <<speaker_gender_vars[i][1],
                          IF i = 1 THEN g ELSE speaker_gender_vars[i][2]>>] :
          g \in IF n = 0 THEN {""} ELSE pool \cup {speaker_gender_vars[1][2]}}

Genders == {"Male"}

(* Where the save of apply_speaker_names raises: nowhere, at the text file, *)
(* at open() of the sidecar, or in json.dump after open() has truncated    *)
(* the file, which leaves a part of the JSON text on disk.                 *)
Failures == {"none", "txt", "json", "dump"}

-----------------------------------------------------------------------------
(* Specifications                                                          *)

InitWith(disk, seeds) ==
    /\ InitMemory
    /\ hash_seed \in seeds
    /\ painted = NoPaint
    /\ files = disk
    /\ vocab = DefaultVocabulary
    /\ vtext = <<>>
    /\ vuse = TRUE
    /\ vonce = <<>>
    /\ vtwice = <<>>
    /\ vphase = 0
    /\ op = SimpleOp("init")
    /\ pre = EmptySession
    /\ shadow = EmptySession
    /\ lastSave = NoSave
    /\ ops = [edits |-> 0, runs |-> 0]

(* The runs below start under one seed; the colors are the only thing the  *)
(* seed reaches, and SpecColors starts under every seed.                   *)
Init == InitWith(InitialFiles, {"a"})

(* Loading, avatars and renaming, without a transcription run. *)
NextRename ==
    \/ \E p \in TranscriptFiles : LoadTranscriptDirectly(p)
    \/ \E id \in DKeys(speaker_entries), f \in AvatarFiles : SetSpeakerAvatar(id, f)
    \/ \E typed \in TypedChoices(TypedNames), chosen \in GenderChoices(Genders),
          fail \in Failures :
          ApplySpeakerNames(typed, chosen, fail)

SpecRename == Init /\ [][NextRename]_vars

(* A transcription run next to loads, media selection and restarts, on a  *)
(* disk that holds a recording and one earlier session.                    *)
IngestFiles ==
    [p \in { <<"rec", ".mp4">>, <<"camp", "_named", ".txt">>,
             <<"camp", "_named", "_segments", ".json">> } |-> InitialFiles[p]]

InitIngest == InitWith(IngestFiles, {"a"})

NextIngest ==
    \/ \E p \in TranscriptFiles : ops.edits < MaxEdits /\ LoadTranscriptDirectly(p)
    \/ \E p \in DOMAIN files : SelectMedia(p)
    \/ ops.runs < MaxRuns /\ StartTranscription
    \/ StopTranscription
    \/ \E stage_ok \in BOOLEAN, result \in RawResults : WorkerStage(stage_ok, result)
    \/ WorkerBuild
    \/ WorkerLoop
    \/ WorkerJoin
    \/ \E write_ok \in BOOLEAN : WorkerSaveText(write_ok)
    \/ \E write_ok \in BOOLEAN : WorkerSaveJson(write_ok)
    \/ WorkerCommit
    \/ WorkerFinish
    \/ TranscriptionComplete
    \/ TranscriptionFailed
    \/ Restart(hash_seed)

SpecIngest == InitIngest /\ [][NextIngest]_vars

(* A transcription run on whatever the producer hands over, results with  *)
(* gaps included, next to loads and media selection.                       *)
NextProducer ==
    \/ \E p \in TranscriptFiles : ops.edits < MaxEdits /\ LoadTranscriptDirectly(p)
    \/ \E p \in DOMAIN files : SelectMedia(p)
    \/ ops.runs < MaxRuns /\ StartTranscription
    \/ \E stage_ok \in BOOLEAN, result \in RawResults \cup {SparseResult} :
          WorkerStage(stage_ok, result)
    \/ WorkerBuild
    \/ WorkerLoop
    \/ WorkerJoin
    \/ \E write_ok \in BOOLEAN : WorkerSaveText(write_ok)
    \/ \E write_ok \in BOOLEAN : WorkerSaveJson(write_ok)
    \/ WorkerCommit
    \/ WorkerFinish
    \/ TranscriptionComplete
    \/ TranscriptionFailed

SpecProducer == InitIngest /\ [][NextProducer]_vars

(* The sidecar of a session that ran past the hour. *)
LateSegments ==
    << Segment(50, 80, "Alice", <<"hello">>),
       Segment(36050, 36100, "Bob", <<"hi">>) >>

PreviewFiles ==
    [p \in DOMAIN IngestFiles \cup { <<"late", "_segments", ".json">> } |->
        IF p \in DOMAIN IngestFiles THEN IngestFiles[p]
        ELSE JsonFile(SidecarObject(NoPath, LateSegments, <<>>, <<>>, TRUE))]

(* A tale or a summary of a loaded session, with the stop button.          *)
NextBard ==
    \/ \E p \in TranscriptFiles : ops.edits < MaxEdits /\ LoadTranscriptDirectly(p)
    \/ \E kind \in {"tale", "summary"}, provider \in Providers, chunk_size \in ChunkSizes :
          StartBardTale(kind, provider, chunk_size)
    \/ StopBardTale
    \/ BardBegin
    \/ BardLoop
    \/ BardAfter
    \/ \E answer \in Answers : BardAnswer(answer)
    \/ BardCallback

SpecBard == InitIngest /\ [][NextBard]_vars

(* Runs one after the other, and presses of the start button at any time.  *)
MaxStarts == 2

NextRuns ==
    \/ \E p \in DOMAIN files : SelectMedia(p)
    \/ ops.runs < MaxStarts /\ StartTranscription
    \/ StartIgnored
    \/ StopTranscription
    \/ \E stage_ok \in BOOLEAN, result \in RawResults : WorkerStage(stage_ok, result)
    \/ WorkerBuild
    \/ WorkerLoop
    \/ WorkerJoin
    \/ \E write_ok \in BOOLEAN : WorkerSaveText(write_ok)
    \/ \E write_ok \in BOOLEAN : WorkerSaveJson(write_ok)
    \/ WorkerCommit
    \/ WorkerFinish
    \/ TranscriptionComplete
    \/ TranscriptionFailed

SpecRuns == InitIngest /\ [][NextRuns]_vars

(* Loads and renames over several runs of the application, each run under *)
(* the hash seed its interpreter drew.                                     *)
InitColors == InitWith(PreviewFiles, HashSeeds)

NextColors ==
    \/ \E p \in TranscriptFiles : LoadTranscriptDirectly(p)
    \/ \E typed \in TypedChoices(TypedNames) :
          ApplySpeakerNames(typed, GenderVarsFor(speakers, speaker_genders), "none")
    \/ \E seed \in HashSeeds : Restart(seed)

SpecColors == InitColors /\ [][NextColors]_vars

(* Playback next to loads and the mapping file, on a disk that holds the   *)
(* session "camp" with its recording and a flat transcript.                *)
PlaybackFiles ==
    [p \in { <<"camp", ".mp4">>, <<"camp", "_named", ".txt">>,
             <<"camp", "_named", "_segments", ".json">>, <<"old", ".txt">> } |->
        IF p = <<"camp", ".mp4">> THEN MediaFile ELSE InitialFiles[p]]

InitPlayback == InitWith(PlaybackFiles, {"a"})

NextPlayback ==
    \/ \E p \in TranscriptFiles : LoadTranscriptDirectly(p)
    \/ \E typed \in TypedChoices(TypedNames) : SaveMappingFile(typed)
    \/ \E start_time \in PlaybackTimes : StartPlayback(start_time)
    \/ \E t \in PlaybackTimes : UpdatePlayback(t)
    \/ StopPlayback

SpecPlayback == InitPlayback /\ [][NextPlayback]_vars

(* Playing, pausing, stopping and skipping in a loaded session. *)
SkipTimes == {30, 790}

NextSkip ==
    \/ \E p \in TranscriptFiles : ops.edits < MaxEdits /\ LoadTranscriptDirectly(p)
    \/ StartPlayback(0)
    \/ \E t \in SkipTimes : UpdatePlayback(t)
    \/ PausePlayback
    \/ StopPlayback
    \/ \E delta_seconds \in SkipDeltas : SkipPlayback(delta_seconds)

SpecSkip == InitPlayback /\ [][NextSkip]_vars

(* apply_corrections on its own: a manager with loaded rule sets corrects  *)
(* a text, then corrects the corrected text.                               *)
InitVocab ==
    /\ InitMemory
    /\ hash_seed = "a"
    /\ painted = NoPaint
    /\ files = InitialFiles
    /\ vocab \in VocabManagers
    /\ vtext \in VocabTexts
    /\ vuse \in BOOLEAN
    /\ vonce = <<>>
    /\ vtwice = <<>>
    /\ vphase = 0
    /\ op = SimpleOp("init")
    /\ pre = EmptySession
    /\ shadow = EmptySession
    /\ lastSave = NoSave
    /\ ops = [edits |-> 0, runs |-> 0]

CorrectOnce ==
    /\ vphase = 0
    /\ vonce' = ApplyCorrections(vocab, vtext, vuse)
    /\ vphase' = 1
    /\ UNCHANGED <<sessionVars, uiVars, runVars, files, colorVars, bardVars, vocab, vtext, vuse, vtwice,
                   playVars, histVars>>

CorrectTwice ==
    /\ vphase = 1
    /\ vtwice' = ApplyCorrections(vocab, vonce, vuse)
    /\ vphase' = 2
    /\ UNCHANGED <<sessionVars, uiVars, runVars, files, colorVars, bardVars, vocab, vtext, vuse, vonce,
                   playVars, histVars>>

NextVocab == CorrectOnce \/ CorrectTwice

SpecVocab == InitVocab /\ [][NextVocab]_vars

-----------------------------------------------------------------------------
(* Properties                                                              *)

(* The number of segments that carry a speaker. *)
Carrying(segments, name) ==
    Cardinality({i \in 1..Len(segments) : segments[i].speaker = name})

(* The cards of the last apply_speaker_names whose entry held a new name. *)
Renames ==
    {i \in 1..Len(op.typed) : op.typed[i][2] # "" /\ op.typed[i][2] # op.typed[i][1]}

AvatarMoved(A, B) ==
    DHas(pre.avatars, A) =>
        DHas(speaker_avatars, B) /\ DGet(speaker_avatars, B, "") = DGet(pre.avatars, A, "")

RenamedTotally(A, B) ==
    /\ Carrying(segments_data, A) = 0
    /\ Carrying(segments_data, B) = Carrying(pre.segments, A)
    /\ AvatarMoved(A, B)
    /\ DHas(pre.genders, A) =>
           DHas(speaker_genders, B)
           /\ DGet(speaker_genders, B, "") = DGet(pre.genders, A, "")
    /\ ~DHas(speaker_avatars, A)
    /\ ~DHas(speaker_genders, A)

(* C1 as the spec states it: after apply_speaker_names renames A to a      *)
(* non-empty B other than A, no segment carries A, exactly as many carry B *)
(* as carried A, and the avatar and gender entries of A are keyed by B     *)
(* with the same values, none being left under A.                          *)
C1_RenameTotal ==
    op.name = "apply" =>
        \A i \in Renames : RenamedTotally(op.typed[i][1], op.typed[i][2])

(* B is new to the session: no other speaker has it or gets it, no segment *)
(* carries it, no avatar or gender entry is keyed by it, and no other      *)
(* speaker is renamed to A.                                                *)
FreshRename(i) ==
    LET A == op.typed[i][1]
        B == op.typed[i][2]
    IN /\ B \notin DKeys(pre.speakers) \cup DValues(pre.speakers)
       /\ \A j \in 1..Len(op.typed) : j # i => op.typed[j][2] \notin {A, B}
       /\ Carrying(pre.segments, B) = 0
       /\ B \notin DKeys(pre.avatars) \cup DKeys(pre.genders)

(* C1, amended: when apply_speaker_names renames A to a name B that is new *)
(* to the session and no other speaker is renamed to A, no segment carries *)
(* A, exactly as many segments carry B as carried A, the avatar of A is    *)
(* keyed by B with the same value, the gender of A is keyed by B with the  *)
(* value its menu held, and no avatar or gender entry is left under A.     *)
C1_RenameToFreshName ==
    op.name = "apply" =>
        \A i \in Renames :
            FreshRename(i) =>
                LET A == op.typed[i][1]
                    B == op.typed[i][2]
                IN /\ Carrying(segments_data, A) = 0
                   /\ Carrying(segments_data, B) = Carrying(pre.segments, A)
                   /\ AvatarMoved(A, B)
                   /\ DHas(speaker_genders, B)
                   /\ DGet(speaker_genders, B, "") = DGet(op.chosen, A, "")
                   /\ ~DHas(speaker_avatars, A)
                   /\ ~DHas(speaker_genders, A)

C1_Witness ==
    /\ op.name = "apply"
    /\ \E i \in Renames :
          /\ FreshRename(i)
          /\ Carrying(pre.segments, op.typed[i][1]) >= 1
          /\ DHas(pre.avatars, op.typed[i][1])
          /\ DHas(pre.genders, op.typed[i][1])
          /\ Carrying(segments_data, op.typed[i][2]) >= 1

SpeakerLabels(lines) ==
    LET ll == LabelledLines(lines) IN [i \in 1..Len(ll) |-> LabelOf(ll[i])]

SegmentSpeakers(segments) == [i \in 1..Len(segments) |-> segments[i].speaker]

Agree(lines, segments) == SpeakerLabels(lines) = SegmentSpeakers(segments)

(* C2: if the transcript text and the segments agree before                *)
(* apply_speaker_names, then after it the label of the i-th dialogue line  *)
(* is the speaker of the i-th segment, for every i.                        *)
C2_TextFollowsSegments ==
    (op.name = "apply" /\ Agree(pre.transcript, pre.segments))
        => Agree(current_transcript, segments_data)

(* C3: loading the file of the last save gives the segments, the avatars   *)
(* and the genders that the session had when it was saved, for a session   *)
(* with a segment and an avatar.                                           *)
C3_SaveLoadRoundTrip ==
    (/\ op.name = "load"
     /\ op.fail = "none"
     /\ lastSave.valid
     /\ op.path \in {lastSave.txt, lastSave.json}
     /\ lastSave.segments # <<>>
     /\ lastSave.avatars # <<>>)
        => /\ segments_data = lastSave.segments
           /\ DItems(speaker_avatars) = DItems(lastSave.avatars)
           /\ DItems(speaker_genders) = DItems(lastSave.genders)

C5_Idempotent == vphase = 2 => vtwice = vonce

(* C6: a word of the input matched by the custom correction comes out as   *)
(* the replacement the user wrote, in the user's casing.                   *)
C6_CustomWins ==
    (vphase >= 1 /\ Len(vocab.custom_corrections) = 1) =>
        LET rule == vocab.custom_corrections[1]
        IN Occurs(rule[1], vtext, TRUE) => Occurs(rule[2], vonce, FALSE)

(* C7: a transcription run that failed left the segment list, the          *)
(* transcript text and the registry as the owner thread last left them.    *)
C7_FailedIngestCommitsNothing ==
    worker.outcome = "failed" =>
        /\ segments_data = shadow.segments
        /\ current_transcript = shadow.transcript
        /\ speakers = shadow.speakers

(* C8: a run that ended at a stop check left the segment list, the         *)
(* transcript text and the registry as the owner thread last left them,    *)
(* and it ends through transcription_failed: the callback is pending with  *)
(* is_transcribing still set, or it has run and is_transcribing is false.  *)
C8_StopLeavesSession ==
    worker.outcome = "stopped" =>
        /\ segments_data = shadow.segments
        /\ current_transcript = shadow.transcript
        /\ speakers = shadow.speakers
        /\ \/ after_queue = <<"transcription_failed">> /\ is_transcribing
           \/ after_queue = <<>> /\ ~is_transcribing

C8_Witness ==
    /\ worker.outcome = "stopped"
    /\ op.name = "transcription_failed"
    /\ ~is_transcribing
    /\ transcription_stop_requested
    /\ segments_data # <<>>

(* C9: a load that fails on a malformed sidecar leaves the session as it   *)
(* was: output file, transcript, segments, media file, avatars, genders    *)
(* and registry.                                                           *)
C9_FailedLoadLeavesSession ==
    (op.name = "load" /\ op.fail = "parse") => Session = pre

(* The sidecar a load of path reads. *)
LoadedSidecar(path) ==
    files[IF EndsWith(path, ".json") THEN path ELSE SidecarPath(path)].json

MergedInto(current, before, loaded) ==
    /\ \A k \in DKeys(loaded) : DHas(current, k) /\ DGet(current, k, "") = DGet(loaded, k, "")
    /\ \A k \in DKeys(before) \ DKeys(loaded) :
          DHas(current, k) /\ DGet(current, k, "") = DGet(before, k, "")

ReadSidecar ==
    /\ op.name = "load"
    /\ op.fail = "none"
    /\ EndsWith(op.path, ".json") \/ Exists(SidecarPath(op.path))

(* C10: after a load that read a sidecar, every avatar and gender key of   *)
(* the sidecar has the loaded value, and every entry that was in memory    *)
(* under a key absent from the sidecar is still there with its value.      *)
C10_LoadMerges ==
    ReadSidecar =>
        /\ MergedInto(speaker_avatars, pre.avatars, LoadedSidecar(op.path).avatars)
        /\ MergedInto(speaker_genders, pre.genders, LoadedSidecar(op.path).genders)

C10_Witness ==
    /\ ReadSidecar
    /\ LoadedSidecar(op.path).avatars # <<>>
    /\ \E k \in DKeys(pre.avatars) : ~DHas(LoadedSidecar(op.path).avatars, k)
    /\ \E k \in DKeys(pre.avatars) : DHas(LoadedSidecar(op.path).avatars, k)


(* The transcript text a load of path takes: the file's text, or for a     *)
(* .json file the lines rebuilt from its segments.                         *)
LoadedText(path) ==
    IF EndsWith(path, ".json") THEN RebuildTranscript(files[path].json.segments)
    ELSE files[path].lines

LoadedOk == op.name = "load" /\ op.fail = "none"

FlatLoadWithSidecar ==
    /\ op.name = "load"
    /\ EndsWith(op.path, ".txt")
    /\ Exists(SidecarPath(op.path))

HoldsAll(current, loaded) ==
    \A k \in DKeys(loaded) : DHas(current, k) /\ DGet(current, k, "") = DGet(loaded, k, "")

(* C12: when a flat transcript is loaded and a sidecar exists at the       *)
(* conventional path, the segment list and the media file are those of the *)
(* sidecar, its avatars and genders are in memory, and no segment is       *)
(* matched out of the text (not even when the sidecar cannot be parsed);   *)
(* the segments are matched out of the text only when no sidecar exists.   *)
C12_SidecarAuthoritative ==
    (op.name = "load" /\ EndsWith(op.path, ".txt")) =>
        IF Exists(SidecarPath(op.path))
        THEN IF op.fail = "none"
             THEN /\ segments_data = files[SidecarPath(op.path)].json.segments
                  /\ current_media_file = files[SidecarPath(op.path)].json.media_file
                  /\ HoldsAll(speaker_avatars, files[SidecarPath(op.path)].json.avatars)
                  /\ HoldsAll(speaker_genders, files[SidecarPath(op.path)].json.genders)
             ELSE segments_data = pre.segments
        ELSE segments_data = LegacySegments(files[op.path].lines)

(* The segments of the sidecar are in memory and differ from what the text *)
(* would give. *)
C12_Witness ==
    /\ FlatLoadWithSidecar
    /\ op.fail = "none"
    /\ segments_data # <<>>
    /\ segments_data # LegacySegments(current_transcript)
    /\ speaker_avatars # <<>>
    /\ current_media_file # pre.media_file

(* A dialogue line as the file format has it: a stamp [MM:SS] or           *)
(* [HH:MM:SS], a speaker, ": " and a text.                                 *)
IsStampedDialogue(line) ==
    /\ Len(line.stamp) \in {2, 3}
    /\ Len(line.body) >= 5
    /\ line.body[1] = "] "
    /\ line.body[2] # ":"
    /\ line.body[3] = ":"
    /\ line.body[4] = " "

(* The time of a stamp, in tenths of a second. *)
StampTime(stamp) ==
    IF Len(stamp) = 3 THEN (stamp[1] * 3600 + stamp[2] * 60 + stamp[3]) * 10
    ELSE (stamp[1] * 60 + stamp[2]) * 10

SegmentPerDialogueLine(lines) ==
    LET dl == SelectSeq(lines, IsStampedDialogue)
    IN [i \in 1..Len(dl) |->
          Segment(StampTime(dl[i].stamp), StampTime(dl[i].stamp) + 50,
                  dl[i].body[2], SubSeq(dl[i].body, 5, Len(dl[i].body)))]

FlatLoadWithoutSidecar ==
    /\ LoadedOk
    /\ EndsWith(op.path, ".txt")
    /\ ~Exists(SidecarPath(op.path))

(* C13: loading a flat transcript that has no sidecar yields exactly one   *)
(* segment per dialogue line "[MM:SS] Speaker: text" or "[HH:MM:SS]        *)
(* Speaker: text", in file order, with that speaker and text, the start at *)
(* the time of the stamp and the end five seconds later; other lines yield *)
(* no segment.                                                             *)
C13_SegmentPerDialogueLine ==
    FlatLoadWithoutSidecar =>
        segments_data = SegmentPerDialogueLine(files[op.path].lines)

(* The name update_speaker_indicators shows for a registry entry. *)
DisplayName(entry) == IF entry[2] # "" THEN entry[2] ELSE entry[1]

(* The registry entry a segment belongs to: the one keyed by its speaker,  *)
(* or, after a rename rewrote the segments, the one that maps to it.       *)
SegmentOf(entry, segment) ==
    \/ segment.speaker = entry[1]
    \/ segment.speaker = entry[2] /\ ~DHas(speakers, segment.speaker)

(* C14: for the playback time t of the last update_speaker_indicators, a   *)
(* display name is in the set of active speakers exactly when some segment *)
(* of a speaker shown under that name has start - 0.5 <= t <= end + 0.5.   *)
C14_ActiveInWindow ==
    op.name = "indicators" =>
        \A d \in {DisplayName(speakers[i]) : i \in 1..Len(speakers)} :
            d \in active_speakers <=>
                \E i \in 1..Len(speakers), j \in 1..Len(segments_data) :
                    /\ DisplayName(speakers[i]) = d
                    /\ SegmentOf(speakers[i], segments_data[j])
                    /\ segments_data[j].start - 5 <= elapsed
                    /\ elapsed <= segments_data[j].end + 5

(* The place of a label in the enumeration: the SPEAKER_ labels first,    *)
(* UNKNOWN last, every other label in between.                             *)
LabelClass(s) == IF StartsWithSPEAKER(s) THEN 0 ELSE IF s = "UNKNOWN" THEN 2 ELSE 1

ComesBefore(a, b) ==
    \/ LabelClass(a) < LabelClass(b)
    \/ LabelClass(a) = LabelClass(b) /\ LexRank(a) < LexRank(b)

Seeded == LoadedOk \/ op.name = "commit"

(* C15: whenever the registry was seeded from raw labels, by a load or by  *)
(* an ingest, its keys stand in this order: the labels that start with     *)
(* SPEAKER_ in lexical order, then the other labels alphabetically, then   *)
(* UNKNOWN.                                                                *)
C15_SeedOrder ==
    Seeded =>
        \A i, j \in 1..Len(speakers) :
            i < j => ComesBefore(speakers[i][1], speakers[j][1])

(* The raw segment the last turn of the loop took. *)
TakenRaw == worker.raw[worker.idx - 1]

LoopTurn == op.name = "loop" /\ worker.pc = "loop"

(* C16: a turn of the ingest loop appends the raw segment to the stored    *)
(* list, its text trimmed, with end = start + 1 s when it has no end and   *)
(* the speaker UNKNOWN when it has no speaker, and stores nothing when the *)
(* trimmed text is empty: the stored list grows in producer order and no   *)
(* segment of empty text is stored.                                        *)
C16_StoredWithDefaults ==
    LoopTurn =>
        IF Strip(TakenRaw.text) = <<>>
        THEN segments_data = pre.segments
        ELSE /\ Len(segments_data) = Len(pre.segments) + 1
             /\ SubSeq(segments_data, 1, Len(pre.segments)) = pre.segments
             /\ LET last == segments_data[Len(segments_data)]
                IN /\ last.start = TakenRaw.start
                   /\ last.text = Strip(TakenRaw.text)
                   /\ last.text # <<>>
                   /\ last.end = IF TakenRaw.has_end THEN TakenRaw.end
                                  ELSE TakenRaw.start + 10
                   /\ last.speaker = IF TakenRaw.has_speaker THEN TakenRaw.speaker
                                      ELSE "UNKNOWN"

(* The loop has gone through a result with a segment without end, one      *)
(* without speaker and one of blank text, and stored the first two.       *)
C16_Witness ==
    /\ LoopTurn
    /\ worker.raw = SparseResult
    /\ worker.idx = 4
    /\ Len(segments_data) = 2
    /\ segments_data[1].end = 60
    /\ segments_data[2].speaker = "UNKNOWN"

(* The save of the last apply_speaker_names failed at the sidecar. *)
SidecarWriteFailed == op.name = "apply" /\ op.fail \in {"json", "dump"}

(* C17: a save writes the transcript text file completely before it starts *)
(* on the sidecar: when the write of the sidecar fails, the text file on   *)
(* disk is complete and holds the current transcript.                      *)
C17_TextSurvivesSidecarFailure ==
    SidecarWriteFailed =>
        /\ Exists(op.path)
        /\ files[op.path] = TextFile(current_transcript)

(* The last apply_speaker_names saved, and no write raised. *)
ApplySaved == op.name = "apply" /\ op.fail = "none" /\ op.path # NoPath

(* C18: whatever the current output file is (_notes.txt, _named.txt or a   *)
(* loaded .json), the save of apply_speaker_names writes the text and the  *)
(* sidecar to two different paths, a load of the text path looks for the   *)
(* sidecar at the path it was written to, and the text file holds the      *)
(* transcript afterwards, not the sidecar.                                 *)
C18_TextAndSidecarApart ==
    ApplySaved =>
        /\ lastSave.txt # lastSave.json
        /\ SidecarPath(lastSave.txt) = lastSave.json
        /\ files[lastSave.txt] = TextFile(current_transcript)

(* The name the last apply_speaker_names gave to the registry speaker k. *)
NewName(k) ==
    IF DGet(op.typed, k, "") # "" THEN DGet(op.typed, k, "") ELSE DGet(pre.speakers, k, k)

(* Nothing that was in the map before can have been moved to the key of    *)
(* the speaker k: neither k nor a speaker of the same new name had an      *)
(* entry, and the new name was no key of the map.                          *)
NothingToMove(before, k) ==
    /\ NewName(k) \notin DKeys(before)
    /\ \A k2 \in DKeys(pre.speakers) : NewName(k2) = NewName(k) => ~DHas(before, k2)

OnlyMoved(current, before) ==
    /\ \A k \in DKeys(pre.speakers) :
          NothingToMove(before, k) => ~DHas(current, NewName(k))
    /\ \A k \in DKeys(before) \ DKeys(pre.speakers) :
          (\A k2 \in DKeys(pre.speakers) : NewName(k2) # k) =>
              DHas(current, k) /\ DGet(current, k, "") = DGet(before, k, "")

(* C19: apply_speaker_names only moves avatar and gender entries from the  *)
(* old key to the new name: a speaker without avatar entry, or without     *)
(* gender entry, before it has none afterwards, and the entries of keys    *)
(* that are not registry speakers are as they were.                        *)
C19_RekeyOnlyMoves ==
    op.name = "apply" =>
        /\ OnlyMoved(speaker_avatars, pre.avatars)
        /\ OnlyMoved(speaker_genders, pre.genders)

(* The last apply_speaker_names raised at one of its writes. *)
ApplyFailed == op.name = "apply" /\ op.fail # "none"

(* C20: a rename is one unit: when apply_speaker_names fails part-way, the *)
(* registry, the segment list, the avatar map, the gender map and the      *)
(* transcript text are all as they were before the call.                   *)
C20_FailedRenameRollsBack ==
    ApplyFailed =>
        /\ speakers = pre.speakers
        /\ segments_data = pre.segments
        /\ speaker_avatars = pre.avatars
        /\ speaker_genders = pre.genders
        /\ current_transcript = pre.transcript

(* The steps that run on the worker thread (run_transcription). *)
WorkerOps == {"stage", "build", "loop", "join", "save_txt", "save_json", "commit", "finish"}

(* C21: the transcription worker never writes the core session state: a    *)
(* step of the worker thread leaves the segment list, the transcript text, *)
(* the media reference and the speaker registry as it found them, so that  *)
(* they change only in steps of the owner thread.                          *)
C21_WorkerLeavesSession ==
    op.name \in WorkerOps =>
        /\ segments_data = pre.segments
        /\ current_transcript = pre.transcript
        /\ current_media_file = pre.media_file
        /\ speakers = pre.speakers

(* The last apply_speaker_names found in every entry the name the speaker  *)
(* already had (or nothing): the registry it read is the registry it had.  *)
NoOpRename == op.name = "apply" /\ ReadEntries(pre.speakers, op.typed) = pre.speakers

MergedCards(i, j) ==
    /\ op.name = "apply"
    /\ op.fail = "none"
    /\ i # j
    /\ op.typed[i][1] # DGet(pre.speakers, op.typed[j][1], "")
    /\ NewName(op.typed[i][1]) = DGet(pre.speakers, op.typed[j][1], "")
    /\ NewName(op.typed[j][1]) = DGet(pre.speakers, op.typed[j][1], "")

(* C23: when speaker A is renamed to the current name of another speaker   *)
(* B, the call goes through and merges them: every segment that carried A  *)
(* or B carries B, every transcript line labelled A or B is labelled B,    *)
(* and the registry holds one entry, for B, and none for A.                *)
C23_RenameMerges ==
    \A i, j \in 1..Len(op.typed) :
        MergedCards(i, j) =>
            LET A == op.typed[i][1]
                B == DGet(pre.speakers, op.typed[j][1], "")
            IN /\ \A n \in 1..Len(pre.segments) :
                     pre.segments[n].speaker \in {A, B} => segments_data[n].speaker = B
               /\ Len(SpeakerLabels(current_transcript)) = Len(SpeakerLabels(pre.transcript))
               /\ \A n \in 1..Len(SpeakerLabels(pre.transcript)) :
                     SpeakerLabels(pre.transcript)[n] \in {A, B}
                         => SpeakerLabels(current_transcript)[n] = B
               /\ DHas(speakers, B)
               /\ ~DHas(speakers, A)
               /\ Len(segments_data) = Len(pre.segments)

(* Two speakers with segments and lines of their own were merged. *)
C23_Witness ==
    \E i, j \in 1..Len(op.typed) :
        /\ MergedCards(i, j)
        /\ Carrying(pre.segments, op.typed[i][1]) >= 1
        /\ Carrying(pre.segments, DGet(pre.speakers, op.typed[j][1], "")) >= 1
        /\ Carrying(segments_data, DGet(pre.speakers, op.typed[j][1], "")) >= 2
        /\ Carrying(segments_data, op.typed[i][1]) = 0
        /\ Len(speakers) = 1
        /\ Range(SpeakerLabels(current_transcript)) = {DGet(pre.speakers, op.typed[j][1], "")}

(* The lists of distinct names assign_speaker_colors is tried on. *)
ColorLists ==
    UNION {InjectiveSeqs({"Alice", "Bob", "Zara"}, n) : n \in 0..3}

(* The preview was colored by the step just taken. *)
JustPainted ==
    /\ op.name \in {"load", "apply"}
    /\ op.fail = "none"
    /\ current_transcript # <<>>

(* C24: assign_speaker_colors gives the name at position i the palette     *)
(* color i mod 12, the same list always the same mapping, and the colors   *)
(* shown for a session's speakers are the same every time that session is  *)
(* rendered: a preview of the registry that the first colored preview had  *)
(* shows the colors that one showed.                                       *)
C24_SameColorsEveryTime ==
    /\ \A ids \in ColorLists : \A i \in 1..Len(ids) :
           DGet(assign_speaker_colors(ids), ids[i], "") =
               SPEAKER_COLORS[((i - 1) % 12) + 1]
    /\ (JustPainted /\ painted.done /\ speakers = painted.speakers)
           => speaker_colors = painted.colors

(* A session file was just loaded and rendered from its segments. *)
RenderedFromSegments ==
    /\ op.name = "load"
    /\ op.fail = "none"
    /\ EndsWith(op.path, ".json")

(* C25: the plain rendering is the fixed title block and then one line per *)
(* segment, in order, "[MM:SS] name: text", with the "[HH:MM:SS]" form for  *)
(* a segment that starts at or after one hour; the stamp of each line,     *)
(* parsed back, is the segment's start in whole seconds.                   *)
C25_PlainRendering ==
    RenderedFromSegments =>
        LET n == Len(segments_data)
        IN /\ Len(current_transcript) = 3 + n
           /\ SubSeq(current_transcript, 1, 3) = <<TitleLine, RuleLine, BlankLine>>
           /\ \A i \in 1..n :
                LET line == current_transcript[3 + i]
                    segment == segments_data[i]
                IN /\ line.body = <<"] ", segment.speaker, ":", " ">> \o segment.text
                   /\ Len(line.stamp) = IF segment.start >= 36000 THEN 3 ELSE 2
                   /\ parse_timestamp(line.stamp) = segment.start \div 10

(* The worker has just ended a run that went through. *)
IngestCompleted == op.name = "finish" /\ worker.outcome = "complete"

(* C26: the vocabulary correction at ingest reaches the segment text: after *)
(* a completed ingest the i-th segment holds the text of the i-th dialogue *)
(* line of the transcript and that line is labelled with the segment's     *)
(* speaker, and the sidecar the ingest saved renders to the same dialogue  *)
(* lines.                                                                  *)
C26_CorrectedSegments ==
    IngestCompleted =>
        LET dl == SelectSeq(current_transcript, IsDialogueLine)
        IN /\ Len(dl) = Len(segments_data)
           /\ \A i \in 1..Len(dl) :
                /\ DialogueText(dl[i]) = segments_data[i].text
                /\ LabelOf(dl[i]) = segments_data[i].speaker
           /\ (lastSave.valid /\ lastSave.by = "ingest") =>
                  SelectSeq(RebuildTranscript(files[lastSave.json].json.segments),
                            IsDialogueLine) = dl

WorkerAlive == worker.pc \notin {"idle", "done"}

C28_NoRequestAfterStop ==
    /\ ~bard_hist.sent_after_stop
    /\ (bard_hist.stop_seen /\ bard_worker.pc = "done" /\ bard_queue = <<>>)
           => ~bard_running

(* C29: bard_tale_complete sets the status to "Stopped" when a stop was    *)
(* requested during the generation it ends, and to "Tale complete!" when   *)
(* none was.                                                               *)
C29_StatusTellsStop ==
    op.name = "bard_tale_complete" =>
        bard_status = IF bard_hist.stop_seen THEN "Stopped" ELSE "Tale complete!"

(* Where the playback stands: the start offset plus the time played since  *)
(* while audio plays, the remembered offset while paused or stopped.       *)
Position == IF is_playing /\ ~is_paused THEN playback_offset + played ELSE playback_offset

(* C30: skip_playback(delta) moves the playback to the position it stands  *)
(* at plus delta, clamped to the range from 0 to the audio duration; while *)
(* audio plays that position is the start offset plus the elapsed time,    *)
(* while paused or stopped the remembered offset.                          *)
C30_SkipFromPosition ==
    [][op'.name = "skip" =>
          Position' = Clamp(Position + op'.typed[1], audio_duration)]_vars

=============================================================================
